---- MODULE Spec2Model ----
(***************************************************************************)
(* Calendar reconciliation scripts: add_january_events.py (blind insert),  *)
(* update_deep_work_jan_2025.py and update_deep_work_3week_plan.py         *)
(* (update-or-create), update_marketing_q1.py (delete-then-create), run    *)
(* against one Google calendar.                                            *)
(*                                                                         *)
(* Text is a sequence of one-character strings, so that str.lower() and    *)
(* the q= text search are computed.  The long free-text literals of the    *)
(* plans (descriptions) are single opaque atoms of such a sequence.        *)
(* Times are minutes; day 0 is Wednesday 2025-01-01 (a naive wall-clock    *)
(* datetime is day*24*60 + hour*60 + minute).                              *)
(***************************************************************************)
EXTENDS Integers, Sequences, FiniteSets, TLC

-----------------------------------------------------------------------------
(* Bounds of the model                                                     *)

\* how many plan days (SCHEDULE entries, PLAN items, marketing weekdays,
\* January dates) one run covers
NumDays == 2
\* how many events the calendar holds before the first run
MaxPre == 2
\* how many times the script is run
MaxRuns == 2

-----------------------------------------------------------------------------
(* Text                                                                    *)

UpperLetters == <<"A","B","C","D","E","F","G","H","I","J","K","L","M","N","O","P","Q","R","S","T","U","V","W","X","Y","Z">>
LowerLetters == <<"a","b","c","d","e","f","g","h","i","j","k","l","m","n","o","p","q","r","s","t","u","v","w","x","y","z">>

\* str.lower() on one character
LowerChar(c) ==
  IF \E i \in 1..Len(UpperLetters) : UpperLetters[i] = c
  THEN LowerLetters[CHOOSE i \in 1..Len(UpperLetters) : UpperLetters[i] = c]
  ELSE c

\* str.lower()
Lower(s) == [i \in 1..Len(s) |-> LowerChar(s[i])]

\* q= free-text search of the service: the term occurs in the text, whatever
\* the case
IsSubstring(q, s) ==
  \E i \in 0..(Len(s) - Len(q)) : SubSeq(s, i + 1, i + Len(q)) = q

TextMatches(q, s) == IsSubstring(Lower(q), Lower(s))

-----------------------------------------------------------------------------
(* Titles                                                                  *)

T_MorningRoutine == <<"M","o","r","n","i","n","g"," ","R","o","u","t","i","n","e">>
T_PlanningAdmin == <<"P","l","a","n","n","i","n","g"," ","&"," ","A","d","m","i","n">>
T_DeepWorkBlock1 == <<"D","e","e","p"," ","W","o","r","k"," ","B","l","o","c","k"," ","1">>
T_Break == <<"B","r","e","a","k">>
T_DeepWorkBlock2 == <<"D","e","e","p"," ","W","o","r","k"," ","B","l","o","c","k"," ","2">>
T_LunchBreak == <<"L","u","n","c","h"," ","B","r","e","a","k">>
T_OperationalWork == <<"O","p","e","r","a","t","i","o","n","a","l"," ","W","o","r","k">>
T_MarketingOutreach == <<"M","a","r","k","e","t","i","n","g"," ","&"," ","O","u","t","r","e","a","c","h">>
T_WrapUpPersonalTime == <<"W","r","a","p","-","U","p"," ","&"," ","P","e","r","s","o","n","a","l"," ","T","i","m","e">>
T_FamilyPersonal == <<"F","a","m","i","l","y","/","P","e","r","s","o","n","a","l">>
T_OptionalWorkStudy == <<"O","p","t","i","o","n","a","l"," ","W","o","r","k","/","S","t","u","d","y">>
T_WindDown == <<"W","i","n","d"," ","D","o","w","n">>
T_LateMorningStart == <<"L","a","t","e"," ","M","o","r","n","i","n","g"," ","S","t","a","r","t">>
T_BigPicturePlanning == <<"B","i","g","-","P","i","c","t","u","r","e"," ","P","l","a","n","n","i","n","g">>
T_FamilyPersonalTime == <<"F","a","m","i","l","y","/","P","e","r","s","o","n","a","l"," ","T","i","m","e">>
T_CreativeBrainstormSession == <<"C","r","e","a","t","i","v","e"," ","B","r","a","i","n","s","t","o","r","m"," ","S","e","s","s","i","o","n">>
T_ShortWorkSessionOptional == <<"S","h","o","r","t"," ","W","o","r","k"," ","S","e","s","s","i","o","n"," ","(","O","p","t","i","o","n","a","l",")">>
T_EveningRelaxation == <<"E","v","e","n","i","n","g"," ","R","e","l","a","x","a","t","i","o","n">>
T_LightReview == <<"L","i","g","h","t"," ","R","e","v","i","e","w">>
T_RestLeisure == <<"R","e","s","t"," ","&"," ","L","e","i","s","u","r","e">>
T_PersonalFamilyTime == <<"P","e","r","s","o","n","a","l"," ","/"," ","F","a","m","i","l","y"," ","T","i","m","e">>
T_LightWeeklyPlanning == <<"L","i","g","h","t"," ","W","e","e","k","l","y"," ","P","l","a","n","n","i","n","g">>

WEEKDAY_FOCUS ==
  <<<<"F","o","c","u","s",":"," ","W","e","e","k"," ","A","g","e","n","d","a"," ","&"," ","P","l","a","n","n","i","n","g"," ","(","M","o","n","d","a","y",")">>,
    <<"F","o","c","u","s",":"," ","P","r","o","d","u","c","t","/","S","e","r","v","i","c","e"," ","D","e","v","e","l","o","p","m","e","n","t"," ","(","T","u","e","s","d","a","y",")">>,
    <<"F","o","c","u","s",":"," ","N","e","t","w","o","r","k","i","n","g"," ","&"," ","M","a","r","k","e","t","i","n","g"," ","(","W","e","d","n","e","s","d","a","y",")">>,
    <<"F","o","c","u","s",":"," ","A","d","m","i","n"," ","&"," ","F","i","n","a","n","c","e","s"," ","(","T","h","u","r","s","d","a","y",")">>,
    <<"F","o","c","u","s",":"," ","W","e","e","k","l","y"," ","R","e","v","i","e","w"," ","&"," ","W","r","a","p","-","U","p"," ","(","F","r","i","d","a","y",")">>,
    <<"F","o","c","u","s",":"," ","B","i","g","-","P","i","c","t","u","r","e"," ","T","h","i","n","k","i","n","g"," ","(","S","a","t","u","r","d","a","y",")">>,
    <<"F","o","c","u","s",":"," ","R","e","s","t"," ","&"," ","R","e","f","l","e","c","t","i","o","n"," ","(","S","u","n","d","a","y",")">>>>

-----------------------------------------------------------------------------
(* Dates and times                                                         *)

MinutesPerDay == 24 * 60

\* a dt that drops the minute
dt_NoMinute(day, hour, minute) == day * MinutesPerDay + hour * 60

\* datetime.datetime(year, month, day, hour, minute), naive
dt(day, hour, minute) == day * MinutesPerDay + hour * 60 + minute

\* date.weekday(): Monday = 0 ... Sunday = 6; day 0 is a Wednesday
weekday(day) == (day + 2) % 7

-----------------------------------------------------------------------------
(* add_january_events.py: the day templates                                *)

\* an event dictionary with 'start' and 'end' the wrong way round
Ev_EndFirst(summary, start, end, description) ==
  [summary |-> summary, start |-> end, end |-> start,
   description |-> description]

Ev(summary, start, end, description) ==
  [summary |-> summary, start |-> start, end |-> end, description |-> description]

weekday_schedule(day, wd) ==
  IF 0 <= wd /\ wd <= 4 THEN <<
    Ev(T_MorningRoutine, dt(day, 6, 0), dt(day, 7, 0),
       <<"Wake up, light exercise, shower, breakfast.">>),
    Ev(T_PlanningAdmin, dt(day, 7, 0), dt(day, 8, 0),
       <<"Check emails, review calendar, daily priorities.">>),
    Ev(T_DeepWorkBlock1, dt(day, 8, 0), dt(day, 10, 0),
       <<"High-focus tasks (strategy, development).">>),
    Ev(T_Break, dt(day, 10, 0), dt(day, 10, 30),
       <<"Hydration, quick walk, snack.">>),
    Ev(T_DeepWorkBlock2, dt(day, 10, 30), dt(day, 12, 30),
       <<"Follow-ups, calls, business strategy.">>),
    Ev(T_LunchBreak, dt(day, 12, 30), dt(day, 13, 30),
       <<"Lunch and short rest.">>),
    Ev(T_OperationalWork, dt(day, 13, 30), dt(day, 15, 30),
       <<"Admin tasks, scheduling, finances.">>),
    Ev(T_Break, dt(day, 15, 30), dt(day, 16, 0),
       <<"Hydration, check messages.">>),
    Ev(T_MarketingOutreach, dt(day, 16, 0), dt(day, 18, 0),
       <<"Networking, contacting leads/partners, social media.">>),
    Ev(T_WrapUpPersonalTime, dt(day, 18, 0), dt(day, 19, 0),
       <<"Review day, finalize tasks, short break.">>),
    Ev(T_FamilyPersonal, dt(day, 19, 0), dt(day, 20, 0),
       <<"Dinner, relax, personal hobbies.">>),
    Ev(T_OptionalWorkStudy, dt(day, 20, 0), dt(day, 21, 0),
       <<"Light tasks, reading, or wind down.">>),
    Ev(T_WindDown, dt(day, 21, 0), dt(day, 22, 0),
       <<"Relaxation, reflection, prep for sleep.">>) >>
  ELSE IF wd = 5 THEN <<
    Ev(T_LateMorningStart, dt(day, 8, 0), dt(day, 9, 0),
       <<"Slightly slower morning routine on Saturday.">>),
    Ev(T_BigPicturePlanning, dt(day, 9, 0), dt(day, 11, 0),
       <<"Industry reading, brainstorming, strategy.">>),
    Ev(T_FamilyPersonalTime, dt(day, 11, 0), dt(day, 14, 0),
       <<"Lunch, hobbies, relaxation.">>),
    Ev(T_CreativeBrainstormSession, dt(day, 14, 0), dt(day, 16, 0),
       <<"Think about new product ideas or improvement.">>),
    Ev(T_ShortWorkSessionOptional, dt(day, 16, 0), dt(day, 18, 0),
       <<"Tie up loose ends if needed.">>),
    Ev(T_EveningRelaxation, dt(day, 18, 0), dt(day, 20, 0),
       <<"Dinner, time with family/friends.">>),
    Ev(T_LightReview, dt(day, 20, 0), dt(day, 21, 0),
       <<"Optional reflection on the week.">>) >>
  ELSE <<
    Ev(T_RestLeisure, dt(day, 9, 0), dt(day, 12, 0),
       <<"Sleep in, family time, minimal to-do.">>),
    Ev(T_PersonalFamilyTime, dt(day, 12, 0), dt(day, 18, 0),
       <<"Relax, hobbies, no major work.">>),
    Ev(T_LightWeeklyPlanning, dt(day, 18, 0), dt(day, 19, 0),
       <<"Short session to prep for Monday.">>) >>

FocusEvent(day) ==
  Ev(WEEKDAY_FOCUS[weekday(day) + 1], dt(day, 0, 0), dt(day, 0, 15),
     <<"Daily Theme: ">> \o WEEKDAY_FOCUS[weekday(day) + 1])

Min(a, b) == IF a < b THEN a ELSE b

\* 2025-01-31, the end_date of the January range, capped by NumDays
JanuaryEndDate == Min(NumDays - 1, 30)

\* a loop body that appends the focus event instead of inserting it at the
\* front
day_events_FocusLast(start_date) ==
  weekday_schedule(start_date, weekday(start_date))
    \o <<FocusEvent(start_date)>>

\* the body of the while loop of main: the day's template with the focus
\* event inserted at the front
day_events(start_date) ==
  <<FocusEvent(start_date)>>
    \o weekday_schedule(start_date, weekday(start_date))

\* Step A of main: the while loop from start_date to end_date
RECURSIVE all_events_until(_, _)
all_events_until(start_date, end_date) ==
  IF start_date <= end_date
  THEN day_events(start_date) \o all_events_until(start_date + 1, end_date)
  ELSE <<>>

all_events(start_date) == all_events_until(start_date, JanuaryEndDate)

-----------------------------------------------------------------------------
(* The plans of the three update scripts                                   *)

\* A free-text literal of a plan, as it stands in the script at a run; the
\* user may edit the literal between two runs (version 2).
Note(tag, i, v) ==
  IF v = 1 THEN <<tag, ToString(i)>> ELSE <<tag, ToString(i), "(edited)">>

\* update_deep_work_jan_2025.py: SCHEDULE[i]["date"], Jan 6-10 and 13-17
SCHEDULE_date == <<5, 6, 7, 8, 9, 12, 13, 14, 15, 16>>

\* a main that handles the second block of a day before the first
DeepWorkBlocks_Swapped(date, b1_desc, b2_desc) ==
  << Ev(T_DeepWorkBlock2, dt(date, 10, 30), dt(date, 12, 30), b2_desc),
     Ev(T_DeepWorkBlock1, dt(date, 8, 0), dt(date, 10, 0), b1_desc) >>

\* the two blocks main builds for one plan day
DeepWorkBlocks(date, b1_desc, b2_desc) ==
  << Ev(T_DeepWorkBlock1, dt(date, 8, 0), dt(date, 10, 0), b1_desc),
     Ev(T_DeepWorkBlock2, dt(date, 10, 30), dt(date, 12, 30), b2_desc) >>

\* the loop of main over SCHEDULE[i .. n]
RECURSIVE DeepWorkJanEntries(_, _, _)
DeepWorkJanEntries(i, n, v) ==
  IF i > n THEN <<>>
  ELSE DeepWorkBlocks(SCHEDULE_date[i],
                      Note("block1_desc", i, v), Note("block2_desc", i, v))
         \o DeepWorkJanEntries(i + 1, n, v)

DeepWorkJanDesired(i, v) ==
  DeepWorkJanEntries(i, Min(NumDays, Len(SCHEDULE_date)), v)

\* update_deep_work_3week_plan.py: len(PLAN), capped by NumDays
days_needed == Min(NumDays, 15)

\* the description f"{day_label} - {summary}\n\n{block_desc}"
PlanDesc(i, summary, block_desc) ==
  <<"Day ", ToString(i), " - ">> \o summary \o <<"\n\n">> \o block_desc

\* the while loop of main: plan item day_count + 1 goes on the next
\* Monday-to-Friday date, current_date moving one day at a time
\* a loop that skips Sundays only (weekday() < 6)
RECURSIVE DeepWork3WeekItems_SixDays(_, _, _, _)
DeepWork3WeekItems_SixDays(current_date, day_count, needed, v) ==
  IF day_count >= needed THEN <<>>
  ELSE IF weekday(current_date) < 6
  THEN DeepWorkBlocks(current_date,
         PlanDesc(day_count + 1, T_DeepWorkBlock1,
                  Note("block1_desc", day_count + 1, v)),
         PlanDesc(day_count + 1, T_DeepWorkBlock2,
                  Note("block2_desc", day_count + 1, v)))
         \o DeepWork3WeekItems_SixDays(current_date + 1, day_count + 1,
                                       needed, v)
  ELSE DeepWork3WeekItems_SixDays(current_date + 1, day_count, needed, v)

RECURSIVE DeepWork3WeekItems(_, _, _, _)
DeepWork3WeekItems(current_date, day_count, needed, v) ==
  IF day_count >= needed THEN <<>>
  ELSE IF weekday(current_date) < 5
  THEN DeepWorkBlocks(current_date,
         PlanDesc(day_count + 1, T_DeepWorkBlock1,
                  Note("block1_desc", day_count + 1, v)),
         PlanDesc(day_count + 1, T_DeepWorkBlock2,
                  Note("block2_desc", day_count + 1, v)))
         \o DeepWork3WeekItems(current_date + 1, day_count + 1, needed, v)
  ELSE DeepWork3WeekItems(current_date + 1, day_count, needed, v)

DeepWork3WeekDesired(current_date, day_count, v) ==
  DeepWork3WeekItems(current_date, day_count, days_needed, v)

\* update_marketing_q1.py: WEEKS[w]["start_date"], Mondays Jan 6 .. Mar 24
WEEKS_start_date == <<5, 12, 19, 26, 33, 40, 47, 54, 61, 68, 75, 82>>
DayNames == <<"Mon", "Tue", "Wed", "Thu", "Fri">>

\* The version of the script in which the 'days' table of a week has lost
\* the entry of slot n (its day name is no key of the table).
DaysMissing(n) == 2 + n

\* tasks_per_day.get(day_name, "No tasks specified.")
daily_tasks(n, v) ==
  IF v = DaysMissing(n) THEN <<"No tasks specified.">>
  ELSE Note("days", n, IF v = 2 THEN 2 ELSE 1)

\* the n-th slot of the nested loops of main (week by week, Mon to Fri)
MarketingSlot(n, v) ==
  LET w == ((n - 1) \div 5) + 1
      i == (n - 1) % 5
      current_date == WEEKS_start_date[w] + i
  IN  Ev(T_MarketingOutreach, dt(current_date, 16, 0), dt(current_date, 18, 0),
         <<"**Focus**: ", "focus", ToString(w), "\n\n**", DayNames[i + 1],
           " Tasks**:\n">> \o daily_tasks(n, v))

\* the first slots of the nested loops
MarketingSlots(slots, v) == [n \in 1..slots |-> MarketingSlot(n, v)]

MarketingDesired(v) ==
  MarketingSlots(Min(NumDays, 5 * Len(WEEKS_start_date)), v)

Scripts == {"january", "deepwork_jan", "deepwork_3week", "marketing"}

-----------------------------------------------------------------------------
(* The state                                                               *)

VARIABLES
  script,     \* which script is run
  today,      \* datetime.date.today() of the 3-week plan
  tzOffset,   \* minutes Europe/London is ahead of UTC on the plan's dates
  current_date, \* the date the while loop of the 3-week plan stands at
  day_count,  \* how many items of PLAN that loop has placed
  calendar,   \* the remote events of calendar 'primary'
  nextId,     \* the id the service gives the next inserted event
  run,        \* how many runs were started
  ver,        \* ver[r]: the version of the plan's literals at run r
  plans,      \* plans[r]: the desired events run r built, in main's order
  pc,         \* where main stands
  k,          \* index of the desired event main is handling
  found,      \* <<>> or <<evt>>: what find_event_by_summary_in_range returned
  pending,    \* the listed events the delete loop has still to visit
  log,        \* the remote calls made so far
  printed,    \* the lines the runs printed so far
  started,    \* started[r]: the calendar when run r started
  ended,      \* ended[r]: how run r ended, and the calendar then
  peer        \* a second run of the marketing script, by another process

vars == <<script, today, tzOffset, current_date, day_count, calendar, nextId, run, ver, plans, pc, k,
         found, pending, log, printed, started, ended, peer>>

\* a 3-week plan whose loop starts one day later at every further run
Desired_Rolling(scr, tdy, v) ==
  CASE scr = "january"        -> all_events(0)
    [] scr = "deepwork_jan"   -> DeepWorkJanDesired(1, v)
    [] scr = "deepwork_3week" -> DeepWork3WeekDesired(tdy + 1 + run, 0, v)
    [] scr = "marketing"      -> MarketingDesired(v)

\* the desired events of one run, in the order main handles them
Desired(scr, tdy, v) ==
  CASE scr = "january"        -> all_events(0)
    [] scr = "deepwork_jan"   -> DeepWorkJanDesired(1, v)
    [] scr = "deepwork_3week" -> DeepWork3WeekDesired(tdy + 1, 0, v)
    [] scr = "marketing"      -> MarketingDesired(v)

-----------------------------------------------------------------------------
(* The Calendar service (events() of calendar 'primary')                   *)

\* a stored event; summary is <<>> when the event has no 'summary' key and
\* <<title>> when it has one; start and end are instants (UTC minutes)
Rem(id, summary, start, end, description, attendees) ==
  [id |-> id, summary |-> summary, start |-> start, end |-> end,
   timeZone |-> "Europe/London", description |-> description,
   attendees |-> attendees]

\* evt.get('summary', '')
GetSummary(evt) == IF evt.summary = <<>> THEN <<>> ELSE evt.summary[1]

\* the instant of a naive 'dateTime' sent with 'timeZone': 'Europe/London'
LondonInstant(naive) == naive - tzOffset

\* the instant of naive.isoformat() + 'Z'
ZInstant(naive) == naive

\* orderBy='startTime'
RECURSIVE OrderByStartTime(_)
OrderByStartTime(S) ==
  IF S = {} THEN <<>>
  ELSE LET e == CHOOSE x \in S :
                  \A y \in S : x.start < y.start
                               \/ (x.start = y.start /\ x.id <= y.id)
       IN  <<e>> \o OrderByStartTime(S \ {e})

\* a list that returns only the events lying wholly inside the window
events_list_Inside(timeMin, timeMax, q) ==
  OrderByStartTime({e \in calendar :
                      /\ e.start >= timeMin
                      /\ e.end <= timeMax
                      /\ \/ TextMatches(q, GetSummary(e))
                         \/ TextMatches(q, e.description)})

\* a list request sent without timeMin and timeMax
events_list_NoWindow(timeMin, timeMax, q) ==
  OrderByStartTime({e \in calendar :
                      \/ TextMatches(q, GetSummary(e))
                      \/ TextMatches(q, e.description)})

\* events().list(timeMin, timeMax, q, singleEvents=True, orderBy='startTime'):
\* the events that end after timeMin, start before timeMax and hold the
\* search text in their summary or description
events_list(timeMin, timeMax, q) ==
  OrderByStartTime({e \in calendar :
                      /\ e.end > timeMin
                      /\ e.start < timeMax
                      /\ \/ TextMatches(q, GetSummary(e))
                         \/ TextMatches(q, e.description)})

\* a create_event whose body names a guest
InsertedEvent_WithGuest(d) ==
  Rem(nextId, <<d.summary>>, LondonInstant(d.start), LondonInstant(d.end),
      d.description, 1)

\* a create_event whose body leaves the description out
InsertedEvent_NoDescription(d) ==
  Rem(nextId, <<d.summary>>, LondonInstant(d.start), LondonInstant(d.end),
      <<>>, 0)

\* the body create_event / add_event_to_google_calendar sends, as stored
InsertedEvent(d) ==
  Rem(nextId, <<d.summary>>, LondonInstant(d.start), LondonInstant(d.end),
      d.description, 0)

\* an update that replaces every stored event of the body's title
events_update_ByTitle(eventId, body) ==
  {e \in calendar : e.id # eventId /\ e.summary # body.summary} \cup {body}

\* events().update(eventId, body): the stored event becomes the body
events_update(eventId, body) ==
  {e \in calendar : e.id # eventId} \cup {body}

\* events().delete(eventId)
\* a delete request that is built but never executed
events_delete_NotExecuted(eventId) == calendar

events_delete(eventId) == {e \in calendar : e.id # eventId}

-----------------------------------------------------------------------------
(* The scripts                                                             *)

desired == plans[run]

Call(op, id, description, old, ok) ==
  [run |-> run, k |-> k, op |-> op, id |-> id, description |-> description,
   old |-> old, ok |-> ok]

\* print(...): one line of the run's output
Line(text, id) == [run |-> run, k |-> k, text |-> text, id |-> id]

\* the closing print of main, after the last desired event
Farewell == IF k < Len(desired) THEN <<>> ELSE <<Line("All done", 0)>>

\* a marketing script that was given the loop body of the Upsert scripts
FirstStep_UpsertOnly ==
  CASE script = "january"   -> "insert"
    [] OTHER                -> "find"

FirstStep ==
  CASE script = "january"   -> "insert"
    [] script = "marketing" -> "list"
    [] OTHER                -> "find"

\* a main that catches the error of a call and goes on with the next event
Crash_GoesOn(cal) ==
  /\ found' = <<>>
  /\ pending' = <<>>
  /\ UNCHANGED printed
  /\ IF k < Len(plans[run])
     THEN /\ k' = k + 1
          /\ pc' = IF script = "january" THEN "insert"
                   ELSE IF script = "marketing" THEN "list" ELSE "find"
          /\ UNCHANGED ended
     ELSE /\ k' = k
          /\ pc' = "done"
          /\ ended' = Append(ended, [outcome |-> "done", calendar |-> cal])

\* an uncaught HttpError ends the run
Crash(cal) ==
  /\ pc' = "crashed"
  /\ ended' = Append(ended, [outcome |-> "crashed", calendar |-> cal])
  /\ UNCHANGED <<k, found, pending, printed>>

\* a main whose Create is not under `else`: it follows the Update as well
NextEvent_NoElse(cal) ==
  /\ found' = <<>>
  /\ pending' = <<>>
  /\ IF pc = "update"
     THEN /\ k' = k
          /\ pc' = "create"
          /\ UNCHANGED ended
     ELSE IF k < Len(desired)
     THEN /\ k' = k + 1
          /\ pc' = FirstStep
          /\ UNCHANGED ended
     ELSE /\ k' = k
          /\ pc' = "done"
          /\ ended' = Append(ended, [outcome |-> "done", calendar |-> cal])

\* main goes on to the next desired event, or ends
NextEvent(cal) ==
  /\ found' = <<>>
  /\ pending' = <<>>
  /\ IF k < Len(desired)
     THEN /\ k' = k + 1
          /\ pc' = FirstStep
          /\ UNCHANGED ended
     ELSE /\ k' = k
          /\ pc' = "done"
          /\ ended' = Append(ended, [outcome |-> "done", calendar |-> cal])

\* a main that lists the first window before it asks for the session
Start_ListsFirst ==
  /\ pc \in {"idle", "done"}
  /\ run < MaxRuns
  /\ run' = run + 1
  /\ \E v \in {1, 2} :
       /\ run = 0 => v = 1
       /\ ver' = Append(ver, v)
       /\ plans' = Append(plans, Desired(script, today, v))
  /\ k' = 1
  /\ found' = <<>>
  /\ pending' = <<>>
  /\ started' = Append(started, calendar)
  /\ \E session \in BOOLEAN :
       IF session
       THEN /\ pc' = FirstStep
            /\ UNCHANGED <<log, ended>>
       ELSE /\ pc' = "crashed"
            /\ ended' = Append(ended, [outcome |-> "no session",
                                       calendar |-> calendar])
            /\ log' = Append(log, [run |-> run', k |-> 1, op |-> "list", id |-> 0,
                                  description |-> <<>>, old |-> <<>>,
                                  ok |-> FALSE])
  /\ UNCHANGED <<script, today, tzOffset, current_date, day_count, calendar, nextId, printed, peer>>

\* python <script>.py: get_google_service() returns the session or raises
\* (no token and no consent, a refresh that fails), which ends the run; then
\* the loop of main begins.  The script is run again once a run has
\* completed.
Start ==
  /\ pc \in {"idle", "done"}
  /\ run < MaxRuns
  /\ run' = run + 1
  /\ \E v \in {1, 2} :
       /\ run = 0 => v = 1
       /\ ver' = Append(ver, v)
       /\ plans' = Append(plans, Desired(script, today, v))
  /\ k' = 1
  /\ found' = <<>>
  /\ pending' = <<>>
  /\ started' = Append(started, calendar)
  /\ \E session \in BOOLEAN :
       IF session
       THEN /\ pc' = FirstStep
            /\ UNCHANGED <<log, ended>>
       ELSE /\ pc' = "crashed"
            /\ ended' = Append(ended, [outcome |-> "no session",
                                       calendar |-> calendar])
            /\ UNCHANGED log
  /\ UNCHANGED <<script, today, tzOffset, current_date, day_count, calendar, nextId, printed, peer>>

\* a matcher that trusts the q= filter of the service: the first listed event
FirstExact_Trusting(events, summary) ==
  IF events = <<>> THEN <<>> ELSE <<Head(events)>>

\* a matcher that lower-cases only the wanted summary
FirstExact_CaseSensitive(events, summary) ==
  LET hits == SelectSeq(events, LAMBDA e : GetSummary(e) = Lower(summary))
  IN  IF hits = <<>> THEN <<>> ELSE <<Head(hits)>>

\* a matcher whose loop does not return at the first equal title: it keeps
\* the last one
FirstExact_Last(events, summary) ==
  LET hits == SelectSeq(events,
                        LAMBDA e : Lower(GetSummary(e)) = Lower(summary))
  IN  IF hits = <<>> THEN <<>> ELSE <<hits[Len(hits)]>>

\* find_event_by_summary_in_range(service, summary, start_dt, end_dt)
RECURSIVE FirstExact(_, _)
FirstExact(events, summary) ==
  IF events = <<>> THEN <<>>
  ELSE IF Lower(GetSummary(Head(events))) = Lower(summary)
  THEN <<Head(events)>>
  ELSE FirstExact(Tail(events), summary)

\* a search whose window is a day wider on both sides
find_event_by_summary_in_range_WideWindow(summary, start_dt, end_dt) ==
  FirstExact(events_list(ZInstant(start_dt) - MinutesPerDay,
                         ZInstant(end_dt) + MinutesPerDay, summary),
             summary)

find_event_by_summary_in_range(summary, start_dt, end_dt) ==
  FirstExact(events_list(ZInstant(start_dt), ZInstant(end_dt), summary),
             summary)

Find ==
  /\ pc = "find"
  /\ \E ok \in BOOLEAN :
       /\ log' = Append(log, Call("list", 0, <<>>, <<>>, ok))
       /\ IF ok
          THEN /\ found' = find_event_by_summary_in_range(
                             desired[k].summary, desired[k].start,
                             desired[k].end)
               /\ pc' = IF found' # <<>> THEN "update" ELSE "create"
               /\ UNCHANGED <<k, pending, printed, ended>>
          ELSE Crash(calendar)
  /\ UNCHANGED <<script, today, tzOffset, current_date, day_count, calendar, nextId, run, ver, plans, started, peer>>

\* an update_event_description that builds a fresh body from the fields the
\* script knows, as create_event does
UpdatedBody_Rebuilt(event_data, new_description) ==
  Rem(event_data.id, event_data.summary, event_data.start, event_data.end,
      new_description, 0)

\* an update_event_description whose body has lost the 'summary' key
UpdatedBody_NoSummary(event_data, new_description) ==
  [event_data EXCEPT !.description = new_description, !.summary = <<>>]

\* an update_event_description that gets the event again by its id and
\* replaces 'description' in what it got
UpdatedBody_Reread(event_data, new_description) ==
  LET stored == {e \in calendar : e.id = event_data.id}
  IN  IF stored = {} THEN [event_data EXCEPT !.description = new_description]
      ELSE [(CHOOSE e \in stored : TRUE) EXCEPT !.description = new_description]

\* the body update_event_description sends: the event as it was listed, with
\* 'description' replaced
UpdatedBody(event_data, new_description) ==
  [event_data EXCEPT !.description = new_description]

\* update_event_description(service, existing, desc)
Update ==
  /\ pc = "update"
  /\ LET event_data == found[1]
         body == UpdatedBody(event_data, desired[k].description)
         stored == {e \in calendar : e.id = event_data.id}
         old == IF stored = {} THEN <<>>
                ELSE (CHOOSE e \in stored : TRUE).description
     IN  \E ok \in BOOLEAN :
           /\ log' = Append(log, Call("update", event_data.id,
                                      body.description, old,
                                      ok /\ stored # {}))
           /\ IF ok /\ stored # {}
              THEN /\ calendar' = events_update(event_data.id, body)
                   /\ printed' = Append(printed, Line("UPDATED", event_data.id))
                                    \o Farewell
                   /\ NextEvent(calendar')
              ELSE /\ calendar' = calendar
                   /\ Crash(calendar)
  /\ UNCHANGED <<script, today, tzOffset, current_date, day_count, nextId, run, ver, plans, started, peer>>

\* create_event(service, summary, start_dt, end_dt, description)
Create ==
  /\ pc = "create"
  /\ \E ok \in BOOLEAN :
       /\ log' = Append(log, Call("insert", IF ok THEN nextId ELSE 0,
                                  desired[k].description, <<>>, ok))
       /\ IF ok
          THEN /\ calendar' = calendar \cup {InsertedEvent(desired[k])}
               /\ nextId' = nextId + 1
               /\ printed' = Append(printed, Line("CREATED", nextId))
                                \o Farewell
               /\ NextEvent(calendar')
          ELSE /\ UNCHANGED <<calendar, nextId>>
               /\ Crash(calendar)
  /\ UNCHANGED <<script, today, tzOffset, current_date, day_count, run, ver, plans, started, peer>>

\* add_event_to_google_calendar(google_service, event_data)
Insert ==
  /\ pc = "insert"
  /\ \E ok \in BOOLEAN :
       /\ log' = Append(log, Call("insert", IF ok THEN nextId ELSE 0,
                                  desired[k].description, <<>>, ok))
       /\ IF ok
          THEN /\ calendar' = calendar \cup {InsertedEvent(desired[k])}
               /\ nextId' = nextId + 1
               /\ printed' = Append(printed, Line("CREATED", nextId))
                                \o Farewell
               /\ NextEvent(calendar')
          ELSE /\ UNCHANGED <<calendar, nextId>>
               /\ Crash(calendar)
  /\ UNCHANGED <<script, today, tzOffset, current_date, day_count, run, ver, plans, started, peer>>

\* delete_existing_marketing_events: the events().list call
List ==
  /\ pc = "list"
  /\ \E ok \in BOOLEAN :
       /\ log' = Append(log, Call("list", 0, <<>>, <<>>, ok))
       /\ IF ok
          THEN /\ pending' = events_list(ZInstant(desired[k].start),
                                         ZInstant(desired[k].end),
                                         T_MarketingOutreach)
               /\ pc' = IF pending' # <<>> THEN "delete" ELSE "create"
               /\ UNCHANGED <<k, found, printed, ended>>
          ELSE Crash(calendar)
  /\ UNCHANGED <<script, today, tzOffset, current_date, day_count, calendar, nextId, run, ver, plans, started, peer>>

\* a delete filter that takes no event for a marketing event
IsMarketingEvent_Never(event) == FALSE

\* a delete filter that trusts the q= filter of the service
IsMarketingEvent_Trusting(event) == TRUE

\* a delete filter that compares the summary as it is written
IsMarketingEvent_CaseSensitive(event) ==
  GetSummary(event) = T_MarketingOutreach

\* summary.lower() == "marketing & outreach"
IsMarketingEvent(event) ==
  Lower(GetSummary(event)) = Lower(T_MarketingOutreach)

\* delete_existing_marketing_events: one iteration of `for event in events`
Delete ==
  /\ pc = "delete"
  /\ LET event == Head(pending)
         after == IF Len(pending) > 1 THEN "delete" ELSE "create"
     IN  IF IsMarketingEvent(event)
         THEN \E ok \in BOOLEAN :
                /\ log' = Append(log, Call("delete", event.id, <<>>,
                                           event.description,
                                           ok /\ event.id \in
                                                   {e.id : e \in calendar}))
                /\ IF ok /\ event.id \in {e.id : e \in calendar}
                   THEN /\ calendar' = events_delete(event.id)
                        /\ printed' = Append(printed,
                                              Line("Deleted", event.id))
                        /\ pending' = Tail(pending)
                        /\ pc' = after
                        /\ UNCHANGED <<k, found, ended>>
                   ELSE /\ calendar' = calendar
                        /\ Crash(calendar)
         ELSE /\ pending' = Tail(pending)
              /\ pc' = after
              /\ UNCHANGED <<calendar, log, printed, k, found, ended>>
  /\ UNCHANGED <<script, today, tzOffset, current_date, day_count, nextId, run, ver, plans, started, peer>>

-----------------------------------------------------------------------------
(* Initial states                                                          *)

\* the dates of the first and the last plan day of the script
FirstDate(scr, tdy) == Desired(scr, tdy, 1)[1].start \div MinutesPerDay
LastDate(scr, tdy) ==
  LET d == Desired(scr, tdy, 1) IN d[Len(d)].start \div MinutesPerDay

\* events somebody else may have put on the calendar before the first run
DeepWorkPool(d1, d2) ==
  { Rem(1, <<T_DeepWorkBlock1>>, dt(d1, 8, 0), dt(d1, 10, 0), <<"old notes">>, 1),
    Rem(2, <<Lower(T_DeepWorkBlock1)>>, dt(d1, 9, 0), dt(d1, 11, 0), <<"lower">>, 0),
    Rem(3, <<T_DeepWorkBlock1 \o <<" ", "p", "r", "e", "p">> >>,
        dt(d1, 8, 0), dt(d1, 10, 0), <<"prep">>, 0),
    Rem(4, <<>>, dt(d1, 8, 30), dt(d1, 9, 30),
        <<"before ">> \o T_DeepWorkBlock1, 0),
    Rem(5, <<T_DeepWorkBlock1>>, dt(d1, 9, 30), dt(d2, 9, 0), <<"long">>, 1),
    Rem(6, <<T_DeepWorkBlock2>>, dt(d1, 11, 0), dt(d1, 11, 30), <<"short">>, 0) }

MarketingPool(d1, d2) ==
  { Rem(1, <<T_MarketingOutreach>>, dt(d1, 16, 0), dt(d1, 18, 0), <<"old notes">>, 1),
    Rem(2, <<Lower(T_MarketingOutreach)>>, dt(d1, 17, 0), dt(d1, 19, 0), <<"lower">>, 0),
    Rem(3, <<T_MarketingOutreach \o <<" ", "s", "y", "n", "c">> >>,
        dt(d1, 16, 0), dt(d1, 18, 0), <<"sync">>, 0),
    Rem(4, <<>>, dt(d1, 16, 30), dt(d1, 17, 30),
        <<"about ">> \o T_MarketingOutreach, 0),
    Rem(5, <<T_MarketingOutreach>>, dt(d1, 17, 30), dt(d2, 17, 0), <<"long">>, 1),
    Rem(6, <<T_MarketingOutreach>>, dt(d1, 12, 0), dt(d1, 13, 0), <<"noon">>, 0) }

Pool(scr, tdy) ==
  CASE scr = "marketing" -> MarketingPool(FirstDate(scr, tdy), LastDate(scr, tdy))
    [] scr = "january"   ->
         { Rem(1, <<T_DeepWorkBlock1>>, dt(0, 8, 0), dt(0, 10, 0), <<"old notes">>, 1),
           Rem(2, <<T_MarketingOutreach>>, dt(0, 16, 0), dt(0, 18, 0), <<"old notes">>, 1) }
    [] OTHER -> DeepWorkPool(FirstDate(scr, tdy), LastDate(scr, tdy))

\* no second process has run the marketing script
PeerIdle == [pc |-> "idle", k |-> 0, pending |-> <<>>, overlapped |-> FALSE]

\* the first id the service hands out is above the ids already there
FirstNewId == Cardinality(DeepWorkPool(0, 1)) + 1

Init ==
  /\ script \in Scripts
  /\ today \in (IF script = "deepwork_3week" THEN {1, 2} ELSE {0})
  /\ current_date = 0
  /\ day_count = 0
  /\ tzOffset \in (IF script = "deepwork_3week" THEN {0, 60} ELSE {0})
  /\ run = 0
  /\ calendar \in {S \in SUBSET Pool(script, today) : Cardinality(S) <= MaxPre}
  /\ nextId = FirstNewId
  /\ ver = <<>>
  /\ plans = <<>>
  /\ pc = "idle"
  /\ k = 0
  /\ found = <<>>
  /\ pending = <<>>
  /\ log = <<>>
  /\ printed = <<>>
  /\ peer = PeerIdle
  /\ started = <<>>
  /\ ended = <<>>

Next == Start \/ Find \/ Update \/ Create \/ Insert \/ List \/ Delete

Spec == Init /\ [][Next]_vars

-----------------------------------------------------------------------------
(* Somebody else at the calendar                                           *)
(*                                                                         *)
(* The calendar is shared: between the List call of a run and the Update   *)
(* or Delete call that follows it, another actor (the owner in the web     *)
(* interface) may delete an event the run has listed.  The service then   *)
(* answers the call that names the event with an error (404 or 410),      *)
(* which the client raises as HttpError.                                   *)

\* the other actor deletes an event the run has listed and not yet handled
ExternalDelete ==
  /\ pc \in {"update", "delete"}
  /\ \E e \in calendar :
       /\ e.id \in {found[i].id : i \in 1..Len(found)}
                  \cup {pending[i].id : i \in 1..Len(pending)}
       /\ calendar' = calendar \ {e}
  /\ UNCHANGED <<script, today, tzOffset, current_date, day_count, nextId, run, ver, plans, pc, k,
                 found, pending, log, printed, started, ended, peer>>

InitActor == Init /\ script # "january"

NextActor ==
  \/ Start \/ Find \/ Update \/ Create \/ List \/ Delete \/ ExternalDelete

SpecActor == InitActor /\ [][NextActor]_vars

-----------------------------------------------------------------------------
(* Somebody else edits a listed event                                      *)
(*                                                                         *)
(* Between the List call of an Upsert run and the Update call that follows *)
(* it, the owner invites somebody to the event the run has found: the      *)
(* stored event gets another 'attendees' value, once in the run.  The      *)
(* actor's call is kept in log as a call of run 0.                         *)

\* the attendees of an event after the owner has invited two more people;
\* no event of the initial calendars and no created event has that many
Invited(attendees) == attendees + 2

ExternalEdit ==
  /\ pc = "update"
  /\ \A i \in 1..Len(log) : log[i].op # "patch"
  /\ \E e \in calendar :
       /\ e.id = found[1].id
       /\ calendar' = (calendar \ {e})
                        \cup {[e EXCEPT !.attendees = Invited(e.attendees)]}
       /\ log' = Append(log, [run |-> 0, k |-> 0, op |-> "patch", id |-> e.id,
                              description |-> <<>>, old |-> <<>>, ok |-> TRUE])
  /\ UNCHANGED <<script, today, tzOffset, current_date, day_count, nextId, run, ver, plans, pc, k,
                 found, pending, printed, started, ended, peer>>

InitStale == Init /\ script = "deepwork_jan"

\* one run of the script
StartStale == run = 0 /\ Start

NextStale == StartStale \/ Find \/ Update \/ Create \/ ExternalEdit

SpecStale == InitStale /\ [][NextStale]_vars

-----------------------------------------------------------------------------
(* A schedule literal with an empty title                                  *)
(*                                                                         *)
(* The titles of update_deep_work_jan_2025.py are data of SCHEDULE         *)
(* ("block1_title", "block2_title"), edited by the user like the notes.    *)
(* Here one of them has been left empty; the times of the blocks are       *)
(* written in main and cannot be edited into start >= end.                 *)

StartEdited ==
  /\ pc = "idle"
  /\ run' = 1
  /\ ver' = <<1>>
  /\ \E i \in 1..Len(Desired(script, today, 1)) :
       plans' = <<[Desired(script, today, 1) EXCEPT ![i].summary = <<>>]>>
  /\ k' = 1
  /\ pc' = FirstStep
  /\ found' = <<>>
  /\ pending' = <<>>
  /\ started' = <<calendar>>
  /\ UNCHANGED <<script, today, tzOffset, current_date, day_count, calendar, nextId, log, printed,
                 ended, peer>>

InitEdited == Init /\ script = "deepwork_jan"

NextEdited == StartEdited \/ Find \/ Update \/ Create

SpecEdited == InitEdited /\ [][NextEdited]_vars

-----------------------------------------------------------------------------
(* A week of WEEKS without one of its days                                 *)
(*                                                                         *)
(* The 'days' tables of update_marketing_q1.py are data of WEEKS, edited   *)
(* by the user like the notes.  Here the entry of one weekday has been     *)
(* removed from its week before the run.                                   *)

StartMissingDay ==
  /\ pc = "idle"
  /\ run' = 1
  /\ \E n \in 1..Len(Desired(script, today, 1)) :
       /\ ver' = <<DaysMissing(n)>>
       /\ plans' = <<Desired(script, today, DaysMissing(n))>>
  /\ k' = 1
  /\ pc' = FirstStep
  /\ found' = <<>>
  /\ pending' = <<>>
  /\ started' = <<calendar>>
  /\ UNCHANGED <<script, today, tzOffset, current_date, day_count, calendar, nextId, log, printed,
                 ended, peer>>

InitMissingDay == Init /\ script = "marketing"

NextMissingDay == StartMissingDay \/ List \/ Delete \/ Create

SpecMissingDay == InitMissingDay /\ [][NextMissingDay]_vars

-----------------------------------------------------------------------------
(* Two runs of update_marketing_q1.py at a time                            *)
(*                                                                         *)
(* Nothing in the script keeps a second process from running it while a    *)
(* first one is at work.  The two runs share only the calendar; each       *)
(* remote call is one step.  Both runs work on the first OverlapSlots      *)
(* slots of the plan.  The calls of the second run fail only when the      *)
(* event they name is gone.                                                *)

OverlapSlots == 1

OverlapPlan == [n \in 1..OverlapSlots |-> MarketingSlot(n, 1)]

Busy == {"list", "delete", "create"}

\* the first process starts its run
StartOverlapped ==
  /\ pc = "idle"
  /\ run' = 1
  /\ ver' = <<1>>
  /\ plans' = <<OverlapPlan>>
  /\ k' = 1
  /\ pc' = "list"
  /\ found' = <<>>
  /\ pending' = <<>>
  /\ started' = <<calendar>>
  /\ peer' = [peer EXCEPT !.overlapped = peer.pc \in Busy]
  /\ UNCHANGED <<script, today, tzOffset, current_date, day_count, calendar, nextId, log, printed, ended>>

PeerCall(op, id, description, old, ok) ==
  [run |-> 0, k |-> peer.k, op |-> op, id |-> id, description |-> description,
   old |-> old, ok |-> ok]

PeerLine(text, id) == [run |-> 0, k |-> peer.k, text |-> text, id |-> id]

\* the second process starts its run
PeerStart ==
  /\ peer.pc = "idle"
  /\ peer' = [pc |-> "list", k |-> 1, pending |-> <<>>,
              overlapped |-> pc \in Busy]
  /\ UNCHANGED <<script, today, tzOffset, current_date, day_count, calendar, nextId, run, ver, plans,
                 pc, k, found, pending, log, printed, started, ended>>

\* delete_existing_marketing_events of the second run: the events().list call
PeerList ==
  /\ peer.pc = "list"
  /\ LET d == OverlapPlan[peer.k]
         events == events_list(ZInstant(d.start), ZInstant(d.end),
                               T_MarketingOutreach)
     IN  peer' = [peer EXCEPT !.pending = events,
                              !.pc = IF events # <<>> THEN "delete"
                                     ELSE "create"]
  /\ log' = Append(log, PeerCall("list", 0, <<>>, <<>>, TRUE))
  /\ UNCHANGED <<script, today, tzOffset, current_date, day_count, calendar, nextId, run, ver, plans,
                 pc, k, found, pending, printed, started, ended>>

\* delete_existing_marketing_events of the second run: one iteration of
\* `for event in events`
PeerDelete ==
  /\ peer.pc = "delete"
  /\ LET event == Head(peer.pending)
         after == IF Len(peer.pending) > 1 THEN "delete" ELSE "create"
         there == event.id \in {e.id : e \in calendar}
     IN  IF IsMarketingEvent(event)
         THEN /\ log' = Append(log, PeerCall("delete", event.id, <<>>,
                                             event.description, there))
              /\ IF there
                 THEN /\ calendar' = events_delete(event.id)
                      /\ printed' = Append(printed,
                                           PeerLine("Deleted", event.id))
                      /\ peer' = [peer EXCEPT !.pending = Tail(peer.pending),
                                              !.pc = after]
                 ELSE /\ peer' = [peer EXCEPT !.pc = "crashed"]
                      /\ UNCHANGED <<calendar, printed>>
         ELSE /\ peer' = [peer EXCEPT !.pending = Tail(peer.pending),
                                      !.pc = after]
              /\ UNCHANGED <<calendar, log, printed>>
  /\ UNCHANGED <<script, today, tzOffset, current_date, day_count, nextId, run, ver, plans, pc, k,
                 found, pending, started, ended>>

\* create_event of the second run
PeerCreate ==
  /\ peer.pc = "create"
  /\ log' = Append(log, PeerCall("insert", nextId,
                                 OverlapPlan[peer.k].description, <<>>, TRUE))
  /\ calendar' = calendar \cup {InsertedEvent(OverlapPlan[peer.k])}
  /\ nextId' = nextId + 1
  /\ IF peer.k < Len(OverlapPlan)
     THEN /\ peer' = [peer EXCEPT !.k = peer.k + 1, !.pc = "list",
                                  !.pending = <<>>]
          /\ printed' = Append(printed, PeerLine("CREATED", nextId))
     ELSE /\ peer' = [peer EXCEPT !.pc = "done", !.pending = <<>>]
          /\ printed' = printed \o <<PeerLine("CREATED", nextId),
                                     PeerLine("All done", 0)>>
  /\ UNCHANGED <<script, today, tzOffset, current_date, day_count, run, ver, plans, pc, k, found,
                 pending, started, ended>>

InitOverlap == Init /\ script = "marketing"

NextOverlap ==
  \/ StartOverlapped \/ List \/ Delete \/ Create
  \/ PeerStart \/ PeerList \/ PeerDelete \/ PeerCreate

SpecOverlap == InitOverlap /\ [][NextOverlap]_vars

-----------------------------------------------------------------------------
(* Two runs of an Upsert script at a time                                  *)
(*                                                                         *)
(* As for the marketing script, nothing keeps a second process from        *)
(* running update_deep_work_jan_2025.py or update_deep_work_3week_plan.py  *)
(* while a first one is at work.  Both runs work on the first OverlapSlots *)
(* desired events of the plan; each remote call is one step.  The second   *)
(* run keeps what its find returned in peer.pending.                       *)

UpsertOverlapPlan == SubSeq(Desired(script, today, 1), 1, OverlapSlots)

UpsertBusy == {"find", "update", "create"}

\* the first process starts its run
StartOverlappedUpsert ==
  /\ pc = "idle"
  /\ run' = 1
  /\ ver' = <<1>>
  /\ plans' = <<UpsertOverlapPlan>>
  /\ k' = 1
  /\ pc' = "find"
  /\ found' = <<>>
  /\ pending' = <<>>
  /\ started' = <<calendar>>
  /\ peer' = [peer EXCEPT !.overlapped = peer.pc \in UpsertBusy]
  /\ UNCHANGED <<script, today, tzOffset, current_date, day_count, calendar, nextId, log, printed, ended>>

\* the second process starts its run
PeerStartUpsert ==
  /\ peer.pc = "idle"
  /\ peer' = [pc |-> "find", k |-> 1, pending |-> <<>>,
              overlapped |-> pc \in UpsertBusy]
  /\ UNCHANGED <<script, today, tzOffset, current_date, day_count, calendar, nextId, run, ver, plans,
                 pc, k, found, pending, log, printed, started, ended>>

\* the second run goes on to its next desired event, or ends
PeerNextEvent ==
  IF peer.k < Len(UpsertOverlapPlan)
  THEN [peer EXCEPT !.k = peer.k + 1, !.pc = "find", !.pending = <<>>]
  ELSE [peer EXCEPT !.pc = "done", !.pending = <<>>]

\* find_event_by_summary_in_range of the second run
PeerFind ==
  /\ peer.pc = "find"
  /\ LET d == UpsertOverlapPlan[peer.k]
         existing == find_event_by_summary_in_range(d.summary, d.start, d.end)
     IN  peer' = [peer EXCEPT !.pending = existing,
                              !.pc = IF existing # <<>> THEN "update"
                                     ELSE "create"]
  /\ log' = Append(log, PeerCall("list", 0, <<>>, <<>>, TRUE))
  /\ UNCHANGED <<script, today, tzOffset, current_date, day_count, calendar, nextId, run, ver, plans,
                 pc, k, found, pending, printed, started, ended>>

\* update_event_description of the second run
PeerUpdate ==
  /\ peer.pc = "update"
  /\ LET event_data == peer.pending[1]
         body == UpdatedBody(event_data,
                             UpsertOverlapPlan[peer.k].description)
     IN  /\ log' = Append(log, PeerCall("update", event_data.id,
                                        body.description,
                                        event_data.description, TRUE))
         /\ calendar' = events_update(event_data.id, body)
         /\ printed' = Append(printed, PeerLine("UPDATED", event_data.id))
  /\ peer' = PeerNextEvent
  /\ UNCHANGED <<script, today, tzOffset, current_date, day_count, nextId, run, ver, plans, pc, k,
                 found, pending, started, ended>>

\* create_event of the second run
PeerCreateUpsert ==
  /\ peer.pc = "create"
  /\ log' = Append(log, PeerCall("insert", nextId,
                                 UpsertOverlapPlan[peer.k].description,
                                 <<>>, TRUE))
  /\ calendar' = calendar \cup {InsertedEvent(UpsertOverlapPlan[peer.k])}
  /\ nextId' = nextId + 1
  /\ printed' = Append(printed, PeerLine("CREATED", nextId))
  /\ peer' = PeerNextEvent
  /\ UNCHANGED <<script, today, tzOffset, current_date, day_count, run, ver, plans, pc, k, found,
                 pending, started, ended>>

InitOverlapUpsert == Init /\ script \in {"deepwork_jan", "deepwork_3week"}

NextOverlapUpsert ==
  \/ StartOverlappedUpsert \/ Find \/ Update \/ Create
  \/ PeerStartUpsert \/ PeerFind \/ PeerUpdate \/ PeerCreateUpsert

SpecOverlapUpsert == InitOverlapUpsert /\ [][NextOverlapUpsert]_vars

-----------------------------------------------------------------------------
(* The schedule generators alone                                           *)
(*                                                                         *)
(* Step A of each main, without the calendar: the desired events of the    *)
(* first k dates of January 2025, of the first k entries of SCHEDULE, of   *)
(* the first k items of PLAN from any day of the week, of the first k      *)
(* slots of WEEKS; k goes up to the whole of each literal.                 *)

\* 31 dates, len(SCHEDULE), len(PLAN), 12 weeks of 5 days
Items(scr) ==
  CASE scr = "january"        -> 31
    [] scr = "deepwork_jan"   -> Len(SCHEDULE_date)
    [] scr = "deepwork_3week" -> 15
    [] scr = "marketing"      -> 5 * Len(WEEKS_start_date)

Expansion(scr, tdy, v, n) ==
  CASE scr = "january"        -> all_events_until(0, n - 1)
    [] scr = "deepwork_jan"   -> DeepWorkJanEntries(1, n, v)
    [] scr = "deepwork_3week" -> DeepWork3WeekItems(tdy + 1, 0, n, v)
    [] scr = "marketing"      -> MarketingSlots(n, v)

InitExpand ==
  /\ script \in Scripts
  /\ today \in (IF script = "deepwork_3week" THEN 0..6 ELSE {0})
  /\ current_date = 0
  /\ day_count = 0
  /\ tzOffset = 0
  /\ calendar = {}
  /\ nextId = FirstNewId
  /\ run = 0
  /\ ver \in (IF script = "january" THEN {<<1>>} ELSE {<<1>>, <<2>>})
  /\ plans = <<>>
  /\ pc = "expand"
  /\ k \in 1..Items(script)
  /\ found = <<>>
  /\ pending = <<>>
  /\ log = <<>>
  /\ printed = <<>>
  /\ started = <<>>
  /\ ended = <<>>
  /\ peer = PeerIdle

Expand ==
  /\ pc = "expand"
  /\ plans' = <<Expansion(script, today, ver[1], k)>>
  /\ pc' = "expanded"
  /\ UNCHANGED <<script, today, tzOffset, current_date, day_count, calendar, nextId, run, ver, k,
                 found, pending, log, printed, started, ended, peer>>

NextExpand == Expand

SpecExpand == InitExpand /\ [][NextExpand]_vars

-----------------------------------------------------------------------------
(* weekday_schedule alone                                                  *)
(*                                                                         *)
(* The function is called with a date of January 2025 (held in today) and  *)
(* a weekday number 0..6 (held in k), whether or not that number is the    *)
(* date's own weekday.                                                     *)

InitTemplate ==
  /\ script = "january"
  /\ today \in 0..30
  /\ current_date = 0
  /\ day_count = 0
  /\ tzOffset = 0
  /\ run = 0
  /\ calendar = {}
  /\ nextId = FirstNewId
  /\ ver = <<1>>
  /\ plans = <<>>
  /\ pc = "template"
  /\ k \in 0..6
  /\ found = <<>>
  /\ pending = <<>>
  /\ log = <<>>
  /\ printed = <<>>
  /\ started = <<>>
  /\ ended = <<>>
  /\ peer = PeerIdle

Template ==
  /\ pc = "template"
  /\ plans' = <<weekday_schedule(today, k)>>
  /\ pc' = "templated"
  /\ UNCHANGED <<script, today, tzOffset, current_date, day_count, calendar, nextId, run, ver, k,
                 found, pending, log, printed, started, ended, peer>>

NextTemplate == Template

SpecTemplate == InitTemplate /\ [][NextTemplate]_vars

-----------------------------------------------------------------------------
(* The scripts one after the other                                         *)
(*                                                                         *)
(* add_january_events.py is run on an empty calendar, then                 *)
(* update_deep_work_jan_2025.py and update_marketing_q1.py, in either      *)
(* order, each once and each with the whole of its literal: the 31 days of *)
(* January, the 10 entries of SCHEDULE, the 12 weeks of WEEKS.             *)

\* the scripts run after add_january_events.py
UpdateScripts == {"deepwork_jan", "marketing"}

StartComposed ==
  /\ pc \in {"idle", "done"}
  /\ run < 1 + Cardinality(UpdateScripts)
  /\ run' = run + 1
  /\ script' \in (IF run = 0 THEN {"january"}
                  ELSE IF run = 1 THEN UpdateScripts
                  ELSE UpdateScripts \ {script})
  /\ ver' = Append(ver, 1)
  /\ plans' = Append(plans, Expansion(script', today, 1, Items(script')))
  /\ k' = 1
  /\ found' = <<>>
  /\ pending' = <<>>
  /\ started' = Append(started, calendar)
  /\ \E session \in BOOLEAN :
       IF session
       THEN /\ pc' = CASE script' = "january"   -> "insert"
                       [] script' = "marketing" -> "list"
                       [] OTHER                 -> "find"
            /\ UNCHANGED <<log, ended>>
       ELSE /\ pc' = "crashed"
            /\ ended' = Append(ended, [outcome |-> "no session",
                                       calendar |-> calendar])
            /\ UNCHANGED log
  /\ UNCHANGED <<today, tzOffset, current_date, day_count, calendar, nextId, printed, peer>>

InitComposed == Init /\ script = "january" /\ calendar = {}

NextComposed ==
  StartComposed \/ Insert \/ Find \/ Update \/ Create \/ List \/ Delete

SpecComposed == InitComposed /\ [][NextComposed]_vars

-----------------------------------------------------------------------------
(* The while loop of update_deep_work_3week_plan.py, step by step          *)
(*                                                                         *)
(* main with the whole of PLAN, from any day of the week, one step per     *)
(* test of the loop condition and one per remote call.  Every call         *)
(* returns: get_google_service gives the session and no request raises.    *)
(* The desired events are built inside the loop, two per business day.     *)
(* The calendar is empty at first, or holds one event on the day after     *)
(* today.                                                                  *)

\* a loop condition that lets day_count reach days_needed once more
LoopGoesOn_Inclusive(count, needed) == count <= needed

\* while day_count < days_needed
LoopGoesOn(count, needed) == count < needed

\* the two blocks of plan_item = PLAN[day_count] on current_date
PlanItemBlocks ==
  DeepWorkBlocks(current_date,
    PlanDesc(day_count + 1, T_DeepWorkBlock1,
             Note("block1_desc", day_count + 1, 1)),
    PlanDesc(day_count + 1, T_DeepWorkBlock2,
             Note("block2_desc", day_count + 1, 1)))

LoopStart ==
  /\ pc = "idle"
  /\ run' = 1
  /\ ver' = <<1>>
  /\ plans' = << <<>> >>
  /\ day_count' = 0
  /\ current_date' = today + 1
  /\ pc' = "while"
  /\ started' = <<calendar>>
  /\ UNCHANGED <<script, today, tzOffset, calendar, nextId, k, found, pending,
                 log, printed, ended, peer>>

\* the test of the loop condition and, within the loop, of the weekday
LoopTest ==
  /\ pc = "while"
  /\ IF LoopGoesOn(day_count, Items(script))
     THEN IF weekday(current_date) < 5
          THEN /\ plans' = <<plans[1] \o PlanItemBlocks>>
               /\ k' = Len(plans[1]) + 1
               /\ pc' = "find"
               /\ UNCHANGED <<current_date, printed, ended>>
          ELSE /\ current_date' = current_date + 1
               /\ UNCHANGED <<plans, k, pc, printed, ended>>
     ELSE /\ pc' = "done"
          /\ printed' = Append(printed, Line("All done", 0))
          /\ ended' = Append(ended, [outcome |-> "done", calendar |-> calendar])
          /\ UNCHANGED <<plans, k, current_date>>
  /\ UNCHANGED <<script, today, tzOffset, day_count, calendar, nextId, run,
                 ver, found, pending, log, started, peer>>

\* after a block's Update or Create: the second block of the day, or
\* day_count += 1 and the next calendar day
LoopNext ==
  /\ found' = <<>>
  /\ IF k < Len(desired)
     THEN /\ k' = k + 1
          /\ pc' = "find"
          /\ UNCHANGED <<current_date, day_count>>
     ELSE /\ day_count' = day_count + 1
          /\ current_date' = current_date + 1
          /\ pc' = "while"
          /\ UNCHANGED k

\* find_event_by_summary_in_range: the items of the list request, then the
\* loop over them
LoopFind ==
  /\ pc = "find"
  /\ log' = Append(log, Call("list", 0, <<>>, <<>>, TRUE))
  /\ \E events \in {events_list(ZInstant(desired[k].start),
                                ZInstant(desired[k].end),
                                desired[k].summary)} :
       LET existing == FirstExact(events, desired[k].summary)
       IN  /\ found' = existing
           /\ pc' = IF existing # <<>> THEN "update" ELSE "create"
  /\ UNCHANGED <<script, today, tzOffset, current_date, day_count, calendar,
                 nextId, run, ver, plans, k, pending, printed, started, ended,
                 peer>>

LoopUpdate ==
  /\ pc = "update"
  /\ LET event_data == found[1]
         body == UpdatedBody(event_data, desired[k].description)
     IN  /\ log' = Append(log, Call("update", event_data.id, body.description,
                                    event_data.description, TRUE))
         /\ calendar' = events_update(event_data.id, body)
         /\ printed' = Append(printed, Line("UPDATED", event_data.id))
  /\ LoopNext
  /\ UNCHANGED <<script, today, tzOffset, nextId, run, ver, plans, pending,
                 started, ended, peer>>

LoopCreate ==
  /\ pc = "create"
  /\ log' = Append(log, Call("insert", nextId, desired[k].description, <<>>,
                             TRUE))
  /\ calendar' = calendar \cup {InsertedEvent(desired[k])}
  /\ nextId' = nextId + 1
  /\ printed' = Append(printed, Line("CREATED", nextId))
  /\ LoopNext
  /\ UNCHANGED <<script, today, tzOffset, run, ver, plans, pending, started,
                 ended, peer>>

InitLoop ==
  /\ script = "deepwork_3week"
  /\ today \in 0..6
  /\ current_date = 0
  /\ day_count = 0
  /\ tzOffset \in {0, 60}
  /\ run = 0
  /\ calendar \in {S \in SUBSET DeepWorkPool(today + 1, today + 2) :
                     Cardinality(S) <= 1}
  /\ nextId = FirstNewId
  /\ ver = <<>>
  /\ plans = <<>>
  /\ pc = "idle"
  /\ k = 0
  /\ found = <<>>
  /\ pending = <<>>
  /\ log = <<>>
  /\ printed = <<>>
  /\ peer = PeerIdle
  /\ started = <<>>
  /\ ended = <<>>

NextLoop == LoopStart \/ LoopTest \/ LoopFind \/ LoopUpdate \/ LoopCreate

\* main is one process that runs on while it can take a step
SpecLoop == InitLoop /\ [][NextLoop]_vars /\ WF_vars(NextLoop)

-----------------------------------------------------------------------------
(* Vocabulary of the properties                                            *)

UpsertScripts == {"deepwork_jan", "deepwork_3week"}

\* title equality as the scripts test it
SameTitle(e, summary) == Lower(GetSummary(e)) = Lower(summary)

\* the remote events of cal in the slot of desired event d: same title, and
\* a time range that intersects d's window [start, end) in Europe/London
SlotEvents(cal, d) ==
  {e \in cal : /\ SameTitle(e, d.summary)
               /\ e.end > LondonInstant(d.start)
               /\ e.start < LondonInstant(d.end)}

\* the calls of run r, and those made for its i-th desired event
CallsOfRun(r) == SelectSeq(log, LAMBDA c : c.run = r)
CallsOf(r, i) == SelectSeq(log, LAMBDA c : c.run = r /\ c.k = i)
Ops(calls, op) == SelectSeq(calls, LAMBDA c : c.op = op)

\* the step is a successful Update call
UpdateStep ==
  /\ pc = "update"
  /\ Len(log') = Len(log) + 1
  /\ log'[Len(log')].op = "update"
  /\ log'[Len(log')].ok

-----------------------------------------------------------------------------
(* C8  Upsert frame: a successful Update leaves the matched event's id,    *)
(* title, start, end, time zone and attendees as they were; only its       *)
(* description changes, to the desired notes; no other event changes.      *)
C8_UpsertFrame ==
  [][UpdateStep =>
       \E e \in calendar :
         /\ e.id = found[1].id
         /\ calendar' = (calendar \ {e})
              \cup {[e EXCEPT !.description = desired[k].description]}]_vars

\* an Update has rewritten the notes of an event that carries attendees
C8_Witness ==
  /\ log # <<>>
  /\ log[Len(log)].op = "update"
  /\ log[Len(log)].ok
  /\ log[Len(log)].old # log[Len(log)].description
  /\ \E e \in calendar :
       /\ e.id = log[Len(log)].id
       /\ e.attendees = 1
       /\ e.description = log[Len(log)].description

-----------------------------------------------------------------------------
(* C10  Matcher exactness: what find_event_by_summary_in_range returns has *)
(* a title equal to the desired one when both are lower-cased; a listed    *)
(* event whose title only contains the desired title, or that has no       *)
(* title, is never returned; the result is empty exactly when no listed    *)
(* event has an equal title.                                               *)
C10_MatcherExact ==
  (script \in UpsertScripts /\ pc \in {"update", "create"}) =>
    LET d == desired[k]
        listed == events_list(ZInstant(d.start), ZInstant(d.end), d.summary)
        exact == {i \in 1..Len(listed) : SameTitle(listed[i], d.summary)}
    IN  /\ found # <<>> =>
             /\ Lower(GetSummary(found[1])) = Lower(d.summary)
             /\ \E i \in exact : listed[i] = found[1]
        /\ found = <<>> <=> exact = {}

\* the service listed events that only mention the title, and Find
\* returned none of them
C10_Witness ==
  /\ script \in UpsertScripts
  /\ pc = "create"
  /\ found = <<>>
  /\ LET d == desired[k]
         listed == events_list(ZInstant(d.start), ZInstant(d.end), d.summary)
     IN  /\ \E i \in 1..Len(listed) : listed[i].summary = <<>>
         /\ \E i \in 1..Len(listed) :
              /\ listed[i].summary # <<>>
              /\ GetSummary(listed[i]) # d.summary

-----------------------------------------------------------------------------
(* More vocabulary                                                         *)

\* the remote events in the window as the List call reads it (the naive
\* start and end taken as UTC) with the desired title
ListSlotEvents(cal, d) ==
  {e \in cal : /\ SameTitle(e, d.summary)
               /\ e.end > ZInstant(d.start)
               /\ e.start < ZInstant(d.end)}

\* the remote events that are d itself: its title, start and end
ExactEvents(cal, d) ==
  {e \in cal : /\ e.summary = <<d.summary>>
               /\ e.start = LondonInstant(d.start)
               /\ e.end = LondonInstant(d.end)}

\* title, start, end and description of an event, and how many events of a
\* calendar carry each such content
Strip(e) ==
  [summary |-> e.summary, start |-> e.start, end |-> e.end,
   description |-> e.description]
Content(cal) ==
  [c \in {Strip(e) : e \in cal} |-> Cardinality({e \in cal : Strip(e) = c})]

-----------------------------------------------------------------------------
(* The properties below speak of a run that has ended; they are stated of  *)
(* the state in which it ends (pc is "done" or "crashed", the run is run), *)
(* and of each call in the state that follows it (the last of log).        *)

(* C1  Upsert re-run idempotence: a run of an Upsert script that follows a *)
(* completed run of the same plan issues no Create and no Delete call, and *)
(* every Update it issues carries the description already stored.          *)
C1_UpsertRerun ==
  (script \in UpsertScripts /\ log # <<>>) =>
    LET c == log[Len(log)] IN
      (c.run >= 2 /\ plans[c.run] = plans[c.run - 1]) =>
        /\ c.op \notin {"insert", "delete"}
        /\ c.op = "update" => c.description = c.old

-----------------------------------------------------------------------------
(* C2  No duplicate creation: from a calendar with no event matching any   *)
(* desired event, a completed pass leaves exactly one remote event per     *)
(* desired event, and so does a second pass of the same plan: it adds no   *)
(* further one.  For every script.                                         *)
C2_NoDuplicateCreation ==
  (/\ pc = "done"
   /\ \A q \in 1..run : plans[q] = plans[1]
   /\ \A i \in 1..Len(plans[1]) :
        SlotEvents(started[1], plans[1][i])
          \cup ListSlotEvents(started[1], plans[1][i]) = {}) =>
    \A i \in 1..Len(plans[run]) :
      Cardinality(ExactEvents(calendar, plans[run][i])) = 1

-----------------------------------------------------------------------------
(* C3  State idempotence: a completed run that follows a completed run of  *)
(* the same plan leaves the calendar with the same number of events and    *)
(* the same title, start, end and description of each as the run before.   *)
C3_StateIdempotent ==
  (pc = "done" /\ run >= 2 /\ plans[run] = plans[run - 1]) =>
    Content(calendar) = Content(ended[run - 1].calendar)

-----------------------------------------------------------------------------
(* C4  Replace-mode cleanup: after a completed pass of the marketing       *)
(* script, every slot (title 'Marketing & Outreach', 16:00-18:00 of a plan *)
(* date) holds exactly one remote event with that title, whatever number   *)
(* of them it held before, and its description is the desired notes.       *)
C4_ReplaceCleanup ==
  (script = "marketing" /\ pc = "done") =>
    \A i \in 1..Len(plans[run]) :
      LET S == SlotEvents(calendar, plans[run][i])
      IN  /\ Cardinality(S) = 1
          /\ \A e \in S : e.description = plans[run][i].description

\* a pass has completed over a slot that held two matching events, one of
\* them with its title in another case
C4_Witness ==
  /\ script = "marketing"
  /\ pc = "done"
  /\ run = 1
  /\ Cardinality(SlotEvents(started[1], plans[1][1])) >= 2
  /\ \E e \in SlotEvents(started[1], plans[1][1]) :
       GetSummary(e) # T_MarketingOutreach
  /\ Len(Ops(CallsOf(1, 1), "delete")) >= 2

-----------------------------------------------------------------------------
(* C5  Convergence, as claimed: after a completed run every desired event  *)
(* has a remote event with its title, its start and end, and its notes.    *)
C5_ConvergesExactly ==
  pc = "done" =>
    \A i \in 1..Len(plans[run]) :
      \E e \in ExactEvents(calendar, plans[run][i]) :
        e.description = plans[run][i].description

\* the last successful Create or Update call made for desired event i of
\* run r
Mutation(r, i) ==
  LET m == SelectSeq(log, LAMBDA c : /\ c.run = r
                                     /\ c.k = i
                                     /\ c.op \in {"insert", "update"}
                                     /\ c.ok)
  IN  m[Len(m)]

\* the description the last Update call of run r sent for event id
LastWritten(r, id) ==
  LET u == SelectSeq(log, LAMBDA c : /\ c.run = r
                                     /\ c.op = "update"
                                     /\ c.ok
                                     /\ c.id = id)
  IN  u[Len(u)].description

(* C5  Convergence, amended: after a completed run every desired event has *)
(* a remote event whose title equals its title when both are lower-cased   *)
(* and whose time range intersects the window the run queried.  If the run *)
(* created that event, it has the desired title, start, end and notes.  If *)
(* the run found it on the calendar, it has the title, start and end it    *)
(* had before the run, and its description is what the last Update of the  *)
(* run wrote to it.                                                        *)
C5_Converges ==
  pc = "done" =>
    \A i \in 1..Len(plans[run]) :
      LET m == Mutation(run, i) IN
        \E e \in ListSlotEvents(calendar, plans[run][i]) :
          /\ e.id = m.id
          /\ m.op = "insert" =>
               /\ e \in ExactEvents(calendar, plans[run][i])
               /\ e.description = plans[run][i].description
          /\ m.op = "update" =>
               /\ \E e0 \in started[run] :
                    e = [e0 EXCEPT !.description = e.description]
               /\ e.description = LastWritten(run, e.id)

\* a run has completed in which an Update went to an event that overlaps
\* the desired window only in part, and a Create made another event
C5_Witness ==
  /\ pc = "done"
  /\ run = 1
  /\ \E i \in 1..Len(plans[1]) :
       /\ Mutation(1, i).op = "update"
       /\ ExactEvents(calendar, plans[1][i]) = {}
  /\ \E i \in 1..Len(plans[1]) : Mutation(1, i).op = "insert"

-----------------------------------------------------------------------------
(* C6  No lost events: a slot that holds a matching remote event when a    *)
(* run starts holds one when the run ends, also when the run ends on a     *)
(* failed call.                                                            *)
C6_NoLostEvents ==
  pc \in {"done", "crashed"} =>
    \A i \in 1..Len(plans[run]) :
      SlotEvents(started[run], plans[run][i]) # {}
        => SlotEvents(calendar, plans[run][i]) # {}

-----------------------------------------------------------------------------
(* C7  Partial-failure isolation: when one Create, Update or Delete call   *)
(* of a run fails, for event kf, the run still reconciles every other      *)
(* desired event: each of them gets its successful Create or Update.       *)
C7_FailureIsolated ==
  pc \in {"done", "crashed"} =>
    LET failed == SelectSeq(log, LAMBDA c : c.run = run /\ ~c.ok) IN
      (Len(failed) = 1 /\ failed[1].op \in {"insert", "update", "delete"}) =>
        \A i \in 1..Len(plans[run]) :
          i # failed[1].k =>
            \E j \in 1..Len(log) :
              /\ log[j].run = run
              /\ log[j].k = i
              /\ log[j].op \in {"insert", "update"}
              /\ log[j].ok

-----------------------------------------------------------------------------
(* C9  Create, then update: an Upsert script run on an empty calendar      *)
(* creates each desired event; a second run with the notes edited issues   *)
(* one Update and no Create per event, after which the slot holds one      *)
(* event, the one the first run created (same id), with the new notes.     *)
C9_CreateThenUpdate ==
  (script \in UpsertScripts /\ pc = "done" /\ run = 2 /\ started[1] = {}
     /\ ver[2] # ver[1]) =>
    \A i \in 1..Len(plans[2]) :
      LET d == plans[2][i]
          c1 == CallsOf(1, i)
          c2 == CallsOf(2, i)
      IN  /\ Len(Ops(c1, "insert")) = 1
          /\ Len(Ops(c1, "update")) = 0
          /\ Len(Ops(c2, "update")) = 1
          /\ Len(Ops(c2, "insert")) = 0
          /\ Ops(c2, "update")[1].id = Ops(c1, "insert")[1].id
          /\ \E e \in calendar :
               /\ SlotEvents(calendar, d) = {e}
               /\ e.id = Ops(c1, "insert")[1].id
               /\ e.description = d.description
               /\ e.description # plans[1][i].description

\* both runs have completed, the second with edited notes, from an empty
\* calendar
C9_Witness ==
  /\ script \in UpsertScripts
  /\ pc = "done"
  /\ run = 2
  /\ started[1] = {}
  /\ ver[2] # ver[1]
  /\ Len(Ops(CallsOfRun(2), "update")) = Len(plans[2])

-----------------------------------------------------------------------------
(* C11  Matcher tie-break: when several remote events in the queried       *)
(* window have the desired title (lower-cased), the one                    *)
(* find_event_by_summary_in_range returns is one of them and none of them  *)
(* starts earlier.                                                         *)
C11_EarliestStart ==
  (script \in UpsertScripts /\ pc = "update") =>
    LET matches == ListSlotEvents(calendar, desired[k])
    IN  /\ found[1] \in matches
        /\ \A e \in matches : found[1].start <= e.start

\* Find has returned the earlier of two events with the desired title that
\* start at different times
C11_Witness ==
  /\ script \in UpsertScripts
  /\ pc = "update"
  /\ \E e \in ListSlotEvents(calendar, desired[k]) :
       /\ e.id # found[1].id
       /\ e.start > found[1].start

-----------------------------------------------------------------------------
(* C12  Collision reporting: when a run of an Upsert script has completed  *)
(* and the window queried for one of its desired events holds more than    *)
(* one remote event with the desired title, the run has printed a line     *)
(* that reports the collision for that event.  (An Upsert run neither      *)
(* deletes nor moves an event, so these are the events Find listed.)       *)
C12_CollisionReported ==
  (script \in UpsertScripts /\ pc = "done") =>
    \A i \in 1..Len(plans[run]) :
      Cardinality(ListSlotEvents(calendar, plans[run][i])) > 1 =>
        \E j \in 1..Len(printed) :
          /\ printed[j].run = run
          /\ printed[j].k = i
          /\ printed[j].text \notin {"UPDATED", "CREATED", "All done"}

-----------------------------------------------------------------------------
\* the calendar as it was when run r began its i-th desired event: the
\* calendar the run started on, without the events the run had deleted and
\* with the events it had created by then
CalendarBefore(r, i) ==
  LET calls == SelectSeq(log, LAMBDA c : c.run = r /\ c.k < i /\ c.ok)
      at(op) == {j \in 1..Len(calls) : calls[j].op = op}
  IN  {e \in started[r] : e.id \notin {calls[j].id : j \in at("delete")}}
        \cup {[InsertedEvent(plans[r][calls[j].k]) EXCEPT !.id = calls[j].id] :
                j \in at("insert")}

(* C13  Replace with zero matches: when a pass of the marketing script has *)
(* completed, for every slot whose window held no remote event with the    *)
(* title 'Marketing & Outreach' when the slot was begun, the pass issued no *)
(* Delete call and exactly one Create call.                                *)
C13_ZeroMatches ==
  (script = "marketing" /\ pc = "done") =>
    \A i \in 1..Len(plans[run]) :
      ListSlotEvents(CalendarBefore(run, i), plans[run][i]) = {} =>
        /\ Len(Ops(CallsOf(run, i), "delete")) = 0
        /\ Len(Ops(CallsOf(run, i), "insert")) = 1

\* a pass has completed a slot that held no event with the title, but an
\* event the List call returns all the same (it only mentions the title)
C13_Witness ==
  /\ script = "marketing"
  /\ pc = "done"
  /\ \E i \in 1..Len(plans[run]) :
       /\ ListSlotEvents(CalendarBefore(run, i), plans[run][i]) = {}
       /\ \E e \in CalendarBefore(run, i) :
            /\ e.end > ZInstant(plans[run][i].start)
            /\ e.start < ZInstant(plans[run][i].end)
            /\ \/ TextMatches(T_MarketingOutreach, GetSummary(e))
               \/ TextMatches(T_MarketingOutreach, e.description)
       /\ Len(Ops(CallsOf(run, i), "insert")) = 1

\* CalendarBefore is the calendar the List call of the slot read
CalendarBeforeIsCalendar ==
  (script = "marketing" /\ pc = "list") => CalendarBefore(run, k) = calendar

-----------------------------------------------------------------------------
(* C14  Sequential ordered processing: a call of a run is never followed   *)
(* by a call of the same run for an earlier desired event, and the desired *)
(* event of the later call does not start before that of the earlier call  *)
(* (date and start time).  Stated of the last two calls of log in every    *)
(* state, hence of every two consecutive calls; each call is one step, it  *)
(* has returned when the next is issued.                                   *)
C14_InOrder ==
  (Len(log) >= 2 /\ log[Len(log) - 1].run = log[Len(log)].run) =>
    LET a == log[Len(log) - 1]
        b == log[Len(log)]
    IN  /\ a.k <= b.k
        /\ b.k <= a.k + 1
        /\ plans[a.run][a.k].start <= plans[b.run][b.k].start
        /\ a.k < b.k => a.ok /\ a.op \in {"insert", "update"}

\* a pass has listed, deleted and created for its first slot and gone on to
\* list and create for the second
C14_Witness ==
  /\ script = "marketing"
  /\ pc = "done"
  /\ Len(CallsOf(run, 1)) >= 3
  /\ Len(CallsOf(run, 2)) >= 2
  /\ plans[run][1].start < plans[run][2].start

-----------------------------------------------------------------------------
(* C15  Overlapped Replace runs.  When both runs have completed and the    *)
(* second did not begin before the first had ended (nor the first before   *)
(* the second had ended), every slot holds exactly one event with the      *)
(* title.  And a run reaches its Create call, as long as no run has        *)
(* created an event, only with the slot empty: a run that deleted a match  *)
(* has left the slot without any event until the first Create.  The        *)
(* witness is the end of two overlapped runs with two events in the slot,  *)
(* after a Delete that preceded both Create calls.                         *)
C15_OneAtATime ==
  /\ (pc = "done" /\ peer.pc = "done" /\ ~peer.overlapped) =>
       \A i \in 1..Len(OverlapPlan) :
         Cardinality(SlotEvents(calendar, OverlapPlan[i])) = 1
  /\ \A i \in 1..Len(OverlapPlan) :
       ( /\ (pc = "create" /\ k = i) \/ (peer.pc = "create" /\ peer.k = i)
         /\ \A j \in 1..Len(log) : ~(log[j].op = "insert" /\ log[j].k = i) )
       => SlotEvents(calendar, OverlapPlan[i]) = {}

C15_Witness ==
  /\ pc = "done"
  /\ peer.pc = "done"
  /\ peer.overlapped
  /\ \E i \in 1..Len(OverlapPlan) :
       /\ Cardinality(SlotEvents(calendar, OverlapPlan[i])) = 2
       /\ \E j \in 1..Len(log) :
            /\ log[j].op = "delete" /\ log[j].ok /\ log[j].k = i
            /\ \A h \in 1..j : log[h].op # "insert"

-----------------------------------------------------------------------------
(* C16  Idempotent delete: when the Delete call of the marketing script    *)
(* has failed because the event it names is no longer on the calendar,     *)
(* the run has not ended: it goes on with the remaining listed events or   *)
(* with the Create call of the slot.                                       *)
C16_DeleteNotFoundIsSuccess ==
  ( /\ script = "marketing"
    /\ log # <<>>
    /\ log[Len(log)].op = "delete"
    /\ ~log[Len(log)].ok
    /\ log[Len(log)].id \notin {e.id : e \in calendar} )
  => pc \in {"delete", "create"}

-----------------------------------------------------------------------------
(* C17  NotFound on Update falls back to Create: when the Update call of   *)
(* an Upsert script has failed because the event Find returned is no       *)
(* longer on the calendar, the run goes on to create the desired event.    *)
C17_UpdateNotFoundCreates ==
  ( /\ script \in UpsertScripts
    /\ log # <<>>
    /\ log[Len(log)].op = "update"
    /\ ~log[Len(log)].ok
    /\ log[Len(log)].id \notin {e.id : e \in calendar} )
  => pc = "create"

-----------------------------------------------------------------------------
\* the DesiredEvent invariant of a set of desired events: every title is
\* non-empty, every start is before its end, and no two events have the
\* same title and overlapping [start, end)
ValidEvents(events) ==
  /\ \A i \in 1..Len(events) :
       /\ events[i].summary # <<>>
       /\ events[i].start < events[i].end
  /\ \A i, j \in 1..Len(events) :
       (i < j /\ events[i].summary = events[j].summary) =>
         (events[i].end <= events[j].start \/ events[j].end <= events[i].start)

(* C18  Validation before any remote call: every remote call was made by   *)
(* a run whose desired events satisfy the DesiredEvent invariant; a run    *)
(* whose set has an event with an empty title makes none.  Stated of the   *)
(* last call of log in every state, hence of every call.                   *)
C18_ValidatedFirst ==
  log # <<>> => ValidEvents(plans[log[Len(log)].run])

-----------------------------------------------------------------------------
(* C19  DesiredEvent invariant on generated schedules: the events a        *)
(* generator has produced (the January templates with the daily focus      *)
(* event, the two deep-work blocks per plan day, the marketing block per   *)
(* plan weekday) all have a non-empty title and start < end, and no two    *)
(* of them have the same title and overlapping [start, end).               *)
C19_GeneratedValid == pc = "expanded" => ValidEvents(plans[1])

\* the whole of January has been generated; a day holds two events of one
\* title ('Break'), one after the other
C19_Witness ==
  /\ pc = "expanded"
  /\ script = "january"
  /\ k = Items(script)
  /\ \E i, j \in 1..Len(day_events(0)) :
       /\ i < j
       /\ plans[1][i].summary = plans[1][j].summary
       /\ plans[1][i].end <= plans[1][j].start

-----------------------------------------------------------------------------
(* C20  Expansion is sorted: all_events of add_january_events.main is in   *)
(* non-decreasing order of start (date, then time of day); every event of  *)
(* it lies on a date of the range, and the events of each date of the      *)
(* range are in it exactly once, as the focus event followed by the day's  *)
(* template.                                                               *)
C20_ExpansionSorted ==
  (pc = "expanded" /\ script = "january") =>
    LET all == plans[1]
        on(d) == SelectSeq(all, LAMBDA e : e.start \div MinutesPerDay = d)
    IN  /\ \A i \in 1..(Len(all) - 1) : all[i].start <= all[i + 1].start
        /\ \A i \in 1..Len(all) : all[i].start \div MinutesPerDay \in 0..(k - 1)
        /\ \A d \in 0..(k - 1) :
             on(d) = <<FocusEvent(d)>> \o weekday_schedule(d, weekday(d))

\* the whole of January has been generated, with the focus events of a
\* Saturday and of the Sunday after it
C20_Witness ==
  /\ pc = "expanded"
  /\ script = "january"
  /\ k = Items(script)
  /\ weekday(3) = 5
  /\ \E i, j \in 1..Len(plans[1]) :
       /\ plans[1][i] = FocusEvent(3)
       /\ plans[1][j] = FocusEvent(4)
       /\ i < j

-----------------------------------------------------------------------------
-----------------------------------------------------------------------------
\* Monday to Friday, read off the calendar: day 0 is Wednesday 2025-01-01,
\* so days 3 and 4 (and every seventh day after them) are a Saturday and a
\* Sunday
IsBusinessDay(d) == d % 7 \notin {3, 4}

\* the date of plan item N of the 3-week plan that was generated
ItemDate(N) == plans[1][2 * N - 1].start \div MinutesPerDay

(* C22  Business-day stepping: in the 3-week plan, from every day of the   *)
(* week as start date, item N has its two blocks on the N-th Monday-to-    *)
(* Friday date strictly after the start date; no item is on a Saturday or  *)
(* Sunday, the dates of consecutive items increase strictly (no date has   *)
(* two items), and every Monday-to-Friday date between the first and the   *)
(* last item has an item.                                                  *)
C22_BusinessDays ==
  (pc = "expanded" /\ script = "deepwork_3week") =>
    /\ Len(plans[1]) = 2 * k
    /\ \A N \in 1..k :
         /\ plans[1][2 * N].start \div MinutesPerDay = ItemDate(N)
         /\ IsBusinessDay(ItemDate(N))
         /\ Cardinality({d \in (today + 1)..ItemDate(N) : IsBusinessDay(d)}) = N
         /\ N > 1 => ItemDate(N - 1) < ItemDate(N)
    /\ \A d \in ItemDate(1)..ItemDate(k) :
         IsBusinessDay(d) => \E N \in 1..k : ItemDate(N) = d

\* all 15 items have been placed from a Friday: the first is on the Monday
\* after, and the last three weeks later
C22_Witness ==
  /\ pc = "expanded"
  /\ script = "deepwork_3week"
  /\ k = Items(script)
  /\ ~IsBusinessDay(today + 1)
  /\ ItemDate(1) = today + 3
  /\ ItemDate(k) = today + 3 + 18

-----------------------------------------------------------------------------
\* the events the List call for the i-th desired event of run r returned:
\* those of the calendar of that moment that overlap the queried window and
\* mention the title
Listed(r, i) ==
  LET d == plans[r][i]
  IN  {e \in CalendarBefore(r, i) :
         /\ e.end > ZInstant(d.start)
         /\ e.start < ZInstant(d.end)
         /\ \/ TextMatches(d.summary, GetSummary(e))
            \/ TextMatches(d.summary, e.description)}

(* C23  Id provenance: the id an Update or Delete call names is the id of  *)
(* an event that a successful List call returned earlier in the same run   *)
(* for the same desired event.  Stated of the last call of log in every    *)
(* state, hence of every call.                                             *)
C23_IdProvenance ==
  (log # <<>> /\ log[Len(log)].op \in {"update", "delete"}) =>
    LET c == log[Len(log)]
    IN  /\ \E j \in 1..(Len(log) - 1) :
             /\ log[j].op = "list" /\ log[j].ok
             /\ log[j].run = c.run /\ log[j].k = c.k
        /\ c.id \in {e.id : e \in Listed(c.run, c.k)}

\* on the second plan day an Update has named an event that lies in that
\* day's window, while the calendar holds a same-title event of the day
\* before as well
C23_Witness ==
  /\ script \in UpsertScripts
  /\ log # <<>>
  /\ log[Len(log)].op = "update"
  /\ log[Len(log)].k > 2
  /\ \E e \in calendar :
       /\ SameTitle(e, plans[run][k].summary)
       /\ e.id \notin {x.id : x \in Listed(log[Len(log)].run, log[Len(log)].k)}

-----------------------------------------------------------------------------
(* C24  Explicit time zone: the window bounds a List call sends (timeMin,  *)
(* timeMax) are the instants of the desired start and end as wall-clock    *)
(* times in Europe/London, the zone the Create bodies name.  Stated of the *)
(* last call of log in every state, hence of every List call.              *)
C24_WindowInLondon ==
  (log # <<>> /\ log[Len(log)].op = "list") =>
    LET d == plans[log[Len(log)].run][log[Len(log)].k]
    IN  /\ ZInstant(d.start) = LondonInstant(d.start)
        /\ ZInstant(d.end) = LondonInstant(d.end)

-----------------------------------------------------------------------------
(* C25  Credentials precede all calendar operations: every remote call     *)
(* belongs to a run that was started and got its session (stated of the    *)
(* last call of log in every state), and a run that ended for want of a    *)
(* session has made no remote call and left the calendar as it was.        *)
C25_SessionFirst ==
  /\ log # <<>> =>
       /\ log[Len(log)].run \in 1..run
       /\ \A r \in 1..Len(ended) :
            ended[r].outcome = "no session" => log[Len(log)].run # r
  /\ (run > 0 /\ pc = "crashed" /\ ended[run].outcome = "no session") =>
       /\ CallsOfRun(run) = <<>>
       /\ calendar = started[run]

\* after a completed run, a second run has ended without a session
C25_Witness ==
  /\ run = 2
  /\ pc = "crashed"
  /\ ended[2].outcome = "no session"
  /\ ended[1].outcome = "done"
  /\ CallsOfRun(1) # <<>>

-----------------------------------------------------------------------------
(* C26  Upsert decision: when a run of an Upsert script has completed, it  *)
(* has issued for every desired event exactly one mutating call and no     *)
(* Delete: a Create if and only if the queried window held no event with   *)
(* the desired title when the event was begun (Find returned empty),       *)
(* otherwise one Update, of an event of that window with that title.       *)
C26_UpsertDecision ==
  (script \in UpsertScripts /\ pc = "done") =>
    \A i \in 1..Len(plans[run]) :
      LET c == CallsOf(run, i)
          matches == ListSlotEvents(CalendarBefore(run, i), plans[run][i])
      IN  /\ Len(Ops(c, "insert")) + Len(Ops(c, "update")) = 1
          /\ Len(Ops(c, "delete")) = 0
          /\ Len(Ops(c, "insert")) = 1 <=> matches = {}
          /\ Len(Ops(c, "update")) = 1 =>
               Ops(c, "update")[1].id \in {e.id : e \in matches}

\* a completed run has updated one desired event and created another
C26_Witness ==
  /\ script \in UpsertScripts
  /\ pc = "done"
  /\ Ops(CallsOfRun(run), "insert") # <<>>
  /\ Ops(CallsOfRun(run), "update") # <<>>

-----------------------------------------------------------------------------
(* C27  Mode separation: a run of an Upsert script issues no Delete call   *)
(* and a run of the marketing script no Update call; a Delete call of the  *)
(* marketing script comes before the Create call of its slot and never     *)
(* names an event the same run created.  Stated of the last call of log in *)
(* every state, hence of every call.                                       *)
C27_ModesApart ==
  log # <<>> =>
    LET c == log[Len(log)]
    IN  /\ script \in UpsertScripts => c.op # "delete"
        /\ script = "marketing" => c.op # "update"
        /\ (script = "marketing" /\ c.op = "delete") =>
             \A j \in 1..(Len(log) - 1) :
               (log[j].run = c.run /\ log[j].op = "insert") =>
                 /\ log[j].k < c.k
                 /\ log[j].id # c.id

\* a pass of the marketing script deletes in its second slot, having
\* created the event of the first
C27_Witness ==
  /\ script = "marketing"
  /\ log # <<>>
  /\ log[Len(log)].op = "delete"
  /\ log[Len(log)].ok
  /\ \E j \in 1..(Len(log) - 1) :
       /\ log[j].run = log[Len(log)].run
       /\ log[j].op = "insert"
       /\ log[j].ok

-----------------------------------------------------------------------------
(* C28  Replace deletion frame: when a run of the marketing script has     *)
(* ended (completed or not), every event that was on the calendar when the *)
(* run began and is not there any more, or not as it was, has the title    *)
(* 'Marketing & Outreach' (lower-cased) and overlaps the window of a slot  *)
(* for which the run issued a successful Delete call naming it; an event   *)
(* with another title, also one that mentions the text in its title or     *)
(* description, and an event outside every window is there unchanged.      *)
C28_DeletionFrame ==
  (script = "marketing" /\ run > 0 /\ pc \in {"done", "crashed"}) =>
    \A e \in started[run] \ calendar :
      /\ SameTitle(e, T_MarketingOutreach)
      /\ \E j \in 1..Len(log) :
           /\ log[j].run = run /\ log[j].op = "delete" /\ log[j].ok
           /\ log[j].id = e.id
           /\ e.end > ZInstant(plans[run][log[j].k].start)
           /\ e.start < ZInstant(plans[run][log[j].k].end)

\* a pass has deleted an event of the slot and left alone one that only
\* mentions the title and one with the title outside the window
C28_Witness ==
  /\ script = "marketing"
  /\ pc = "done"
  /\ started[run] \ calendar # {}
  /\ \E e \in started[run] \cap calendar :
       /\ ~SameTitle(e, T_MarketingOutreach)
       /\ e \in Listed(run, 1)
  /\ \E e \in started[run] \cap calendar :
       /\ SameTitle(e, T_MarketingOutreach)
       /\ \A i \in 1..Len(plans[run]) : e \notin Listed(run, i)

-----------------------------------------------------------------------------
(* C29  Template weekday classes: weekday_schedule returns 13 events when  *)
(* the weekday is 0..4, 7 events when it is 5 and 3 events otherwise; the  *)
(* events are all on the given date, in increasing order of start, and     *)
(* each ends no later than the next one starts.                            *)
C29_WeekdayClasses ==
  pc = "templated" =>
    LET t == plans[1]
    IN  /\ Len(t) = (IF k \in 0..4 THEN 13 ELSE IF k = 5 THEN 7 ELSE 3)
        /\ \A i \in 1..Len(t) :
             /\ t[i].start \div MinutesPerDay = today
             /\ t[i].start < t[i].end
        /\ \A i \in 1..(Len(t) - 1) :
             /\ t[i].start < t[i + 1].start
             /\ t[i].end <= t[i + 1].start

\* the Sunday template was returned for weekday 6, on a date that is no
\* Sunday, and the Monday-to-Friday template for another
C29_Witness ==
  /\ pc = "templated"
  /\ \/ k = 6 /\ Len(plans[1]) = 3 /\ weekday(today) # 6
     \/ k = 0 /\ Len(plans[1]) = 13 /\ weekday(today) = 6

-----------------------------------------------------------------------------
\* the dates of the plan whose weekday is no key of its week's 'days' table
\* in version v of the script
DatesWithoutEntry(v) ==
  {WEEKS_start_date[((n - 1) \div 5) + 1] + ((n - 1) % 5) :
     n \in {m \in 1..(5 * Len(WEEKS_start_date)) : v = DaysMissing(m)}}

(* C30  Dates without a template entry contribute nothing: no desired      *)
(* event of a run is on a date whose weekday is missing from the 'days'    *)
(* table of its week, and no remote call is made for such a date.  The     *)
(* second part is stated of the last call of log in every state, hence of  *)
(* every call.                                                             *)
C30_MissingDaySkipped ==
  /\ \A r \in 1..Len(plans) : \A i \in 1..Len(plans[r]) :
       plans[r][i].start \div MinutesPerDay \notin DatesWithoutEntry(ver[r])
  /\ log # <<>> =>
       LET c == log[Len(log)]
       IN  plans[c.run][c.k].start \div MinutesPerDay
             \notin DatesWithoutEntry(ver[c.run])

-----------------------------------------------------------------------------
(* C31  Stale write-back on Upsert: after a successful Update the stored   *)
(* event is the event as the preceding List returned it, with only the     *)
(* description replaced by the desired notes; a field another actor has    *)
(* changed between the List and the Update has its List-time value again.  *)
C31_StaleWriteBack ==
  [][UpdateStep =>
       \E e \in calendar' :
         /\ e.id = found[1].id
         /\ e = [found[1] EXCEPT !.description = desired[k].description]]_vars

\* the other actor's edit of an event was followed by a successful Update of
\* that event, and the stored event does not have the actor's attendees
C31_Witness ==
  /\ Len(log) >= 2
  /\ log[Len(log)].op = "update"
  /\ log[Len(log)].ok
  /\ log[Len(log) - 1].op = "patch"
  /\ log[Len(log) - 1].id = log[Len(log)].id
  /\ \E e \in calendar :
       /\ e.id = log[Len(log)].id
       /\ e.attendees < Invited(0)
       /\ e.description = log[Len(log)].description

-----------------------------------------------------------------------------
(* C32  Overlapped Upsert runs can duplicate: with two runs of an Upsert   *)
(* script interleaved call by call, no step of either run reduces the      *)
(* number of remote events matching a desired event of the plan (and       *)
(* there is an interleaving, the witness, in which both finds return       *)
(* nothing and both runs create).                                          *)
C32_NeverFewerMatches ==
  [][calendar' # calendar =>
       \A i \in 1..Len(UpsertOverlapPlan) :
         Cardinality(ListSlotEvents(calendar', UpsertOverlapPlan[i]))
           >= Cardinality(ListSlotEvents(calendar, UpsertOverlapPlan[i]))]_vars

\* both runs are over, they overlapped, the slot held no matching event when
\* the first run started and holds two now, both created by the runs
C32_Witness ==
  /\ pc = "done"
  /\ peer.pc = "done"
  /\ peer.overlapped
  /\ ListSlotEvents(started[1], plans[1][1]) = {}
  /\ Cardinality({e \in ListSlotEvents(calendar, plans[1][1]) :
                    e.id >= FirstNewId}) = 2
  /\ Len(Ops(log, "list")) = 2 * Len(plans[1])

-----------------------------------------------------------------------------
\* the earliest-starting events of a set (one event, unless starts are equal)
Earliest(S) == {e \in S : \A y \in S : e.start <= y.start}

EarliestFor(r, e) ==
  {j \in 1..Len(plans[r]) :
     e \in Earliest(ListSlotEvents(started[r], plans[r][j]))}

-----------------------------------------------------------------------------
(* C34  Replace discards identity and foreign fields: after a completed    *)
(* pass of the marketing script every slot holds one event; its id is the  *)
(* id of no event that was on the calendar when the pass started, and it   *)
(* has the title, start, end, time zone and description the run built and  *)
(* nothing else (no attendees), whatever its predecessors carried.         *)
C34_FreshSurvivor ==
  (script = "marketing" /\ pc = "done") =>
    \A i \in 1..Len(plans[run]) :
      LET d == plans[run][i]
      IN  \E e \in calendar :
            /\ SlotEvents(calendar, d) = {e}
            /\ e.id \notin {x.id : x \in started[run]}
            /\ e = Rem(e.id, <<d.summary>>, LondonInstant(d.start),
                       LondonInstant(d.end), d.description, 0)

\* a pass has completed over a slot that held an event with attendees, at
\* the very start and end of the slot; that event is gone
C34_Witness ==
  /\ script = "marketing"
  /\ pc = "done"
  /\ run = 1
  /\ \E x \in SlotEvents(started[1], plans[1][1]) :
       /\ x.attendees = 1
       /\ x.start = LondonInstant(plans[1][1].start)
       /\ x.end = LondonInstant(plans[1][1].end)
       /\ x.id \notin {e.id : e \in calendar}

-----------------------------------------------------------------------------
(* C35  Abort leaves a reconciled prefix: a call that raises is the last   *)
(* call made (the run stops there).  In the state the run has ended in,    *)
(* on the failed call for desired event k: every desired event before k    *)
(* has its successful Create or Update and the event that call named is    *)
(* on the calendar, with the desired notes if it was created and with the  *)
(* notes last written to it if it was found; no call of the run is for an  *)
(* event after k; and if the failed call is the Create of a marketing      *)
(* slot, the slot holds no event of the title.                             *)
C35_ReconciledPrefix ==
  /\ Len(log) >= 2 => log[Len(log) - 1].ok
  /\ (pc = "crashed" /\ ended[run].outcome = "crashed") =>
       LET c == log[Len(log)]
       IN  /\ ~c.ok /\ c.run = run /\ c.k = k
           /\ \A j \in 1..Len(log) : log[j].run = run => log[j].k <= k
           /\ \A i \in 1..(k - 1) :
                LET m == Mutation(run, i)
                IN  \E e \in calendar :
                      /\ e.id = m.id
                      /\ m.op = "insert" =>
                           e.description = plans[run][i].description
                      /\ m.op = "update" =>
                           e.description = LastWritten(run, e.id)
           /\ (script = "marketing" /\ c.op = "insert") =>
                SlotEvents(calendar, plans[run][k]) = {}

\* the second pass of the marketing script has ended on the failed Create
\* of its second slot, after the Delete of the event the first pass had
\* created there; the first slot has its new event
C35_Witness ==
  /\ script = "marketing"
  /\ pc = "crashed"
  /\ run = 2
  /\ k = 2
  /\ log[Len(log)].op = "insert"
  /\ ~log[Len(log)].ok
  /\ Len(Ops(CallsOf(2, 2), "delete")) >= 1
  /\ SlotEvents(ended[1].calendar, plans[2][2]) # {}
  /\ SlotEvents(calendar, plans[2][2]) = {}
  /\ Mutation(2, 1).op = "insert"

-----------------------------------------------------------------------------
\* the events of cal with the title, starting on the date
TitledOn(cal, title, date) ==
  {e \in cal : GetSummary(e) = title /\ e.start \div MinutesPerDay = date}

\* the Monday-to-Friday dates from first to last
Weekdays(first, last) == {x \in first..last : weekday(x) <= 4}

\* the desired events of the runs after the first with the title, on the date
DesiredOn(title, date) ==
  {d \in UNION {{plans[r][i] : i \in 1..Len(plans[r])} : r \in 2..run} :
     d.summary = title /\ d.start \div MinutesPerDay = date}

(* C36  Cross-script composition: after add_january_events on the empty    *)
(* calendar and then update_deep_work_jan_2025 and update_marketing_q1, in *)
(* either order, every weekday from Jan 6 to Jan 17 has exactly one 'Deep  *)
(* Work Block 1' and one 'Deep Work Block 2' event, with the SCHEDULE      *)
(* description, every weekday from Jan 6 to Jan 31 has exactly one         *)
(* 'Marketing & Outreach' event, with the WEEKS description, and every     *)
(* other event add_january_events created is on the calendar as created.   *)
C36_Composition ==
  (run = 3 /\ pc = "done") =>
    /\ \A x \in Weekdays(5, 16) : \A title \in {T_DeepWorkBlock1, T_DeepWorkBlock2} :
         \E e \in calendar : \E d \in DesiredOn(title, x) :
           /\ TitledOn(calendar, title, x) = {e}
           /\ e.description = d.description
           /\ e \notin ended[1].calendar
    /\ \A x \in Weekdays(5, 30) :
         \E e \in calendar : \E d \in DesiredOn(T_MarketingOutreach, x) :
           /\ TitledOn(calendar, T_MarketingOutreach, x) = {e}
           /\ e.description = d.description
           /\ e \notin ended[1].calendar
    /\ \A e \in ended[1].calendar :
         \/ e \in calendar
         \/ /\ GetSummary(e) \in {T_DeepWorkBlock1, T_DeepWorkBlock2}
            /\ e.start \div MinutesPerDay \in Weekdays(5, 16)
         \/ /\ GetSummary(e) = T_MarketingOutreach
            /\ e.start \div MinutesPerDay \in Weekdays(5, 30)

\* the three scripts have run, the marketing script last; the Deep Work
\* blocks of Jan 3 and the marketing event of Feb 3 are there as well
C36_Witness ==
  /\ run = 3
  /\ pc = "done"
  /\ script = "marketing"
  /\ Cardinality(ended[1].calendar) = Len(plans[1])
  /\ Len(plans[1]) > 300
  /\ TitledOn(calendar, T_DeepWorkBlock1, 2) \subseteq ended[1].calendar
  /\ TitledOn(calendar, T_DeepWorkBlock1, 2) # {}
  /\ TitledOn(calendar, T_MarketingOutreach, 33) # {}

-----------------------------------------------------------------------------
\* the successful Create calls run r made for its i-th desired event
Created(r, i) ==
  SelectSeq(log, LAMBDA c : c.run = r /\ c.k = i /\ c.op = "insert" /\ c.ok)

(* C37  Find after Create under a zone offset: with Europe/London at UTC   *)
(* or one hour ahead, when a run of an Upsert script comes to a desired    *)
(* event that the run before it created, its find (the window being the    *)
(* naive start and end read as UTC) has returned that created event: the   *)
(* run updates it and does not create a second one.                        *)
C37_FindAfterCreate ==
  (script \in UpsertScripts /\ run = 2 /\ pc \in {"update", "create"}
     /\ Created(1, k) # <<>>) =>
    /\ pc = "update"
    /\ found[1].id = Created(1, k)[1].id

\* with London an hour ahead of UTC, the second run has found the event the
\* first run created, which starts an hour before the window
C37_Witness ==
  /\ script \in UpsertScripts
  /\ tzOffset = 60
  /\ run = 2
  /\ pc = "update"
  /\ Created(1, k) # <<>>
  /\ found[1].id = Created(1, k)[1].id
  /\ found[1].start < ZInstant(plans[2][k].start)
  /\ found[1].end - found[1].start = 120

-----------------------------------------------------------------------------
\* the loop is over: what it has done
LoopOutcome ==
  /\ day_count = Items(script)
  /\ plans[1] = DeepWork3WeekItems(today + 1, 0, Items(script), 1)
  /\ Cardinality({plans[1][i].start \div MinutesPerDay :
                    i \in 1..Len(plans[1])}) = Items(script)
  /\ Len(log) = 4 * Items(script)
  /\ \A j \in 1..(2 * Items(script)) :
       /\ log[2 * j - 1].op = "list"
       /\ log[2 * j - 1].k = j
       /\ log[2 * j].op \in {"insert", "update"}
       /\ log[2 * j].k = j

(* C38  Termination of the business-day loop: from every day of the week,  *)
(* with every call returning, the while loop of the 3-week plan ends; it   *)
(* ends with day_count = len(PLAN) = 15, 15 dates handled and 30 Find      *)
(* calls, each followed by one Create or Update; day_count is never above  *)
(* 15, and below 15 whenever an item of PLAN is in use (the index          *)
(* day_count is in range).                                                 *)
C38_LoopTerminates ==
  /\ [](/\ day_count <= Items(script)
        /\ pc \in {"find", "update", "create"} => day_count < Items(script)
        /\ pc = "done" => LoopOutcome)
  /\ <>(pc = "done")

\* the loop has ended after a start on a Friday: it went over three weekends
\* and placed the last item 21 days after the first
C38_Witness ==
  /\ pc = "done"
  /\ weekday(today) = 4
  /\ day_count = Items(script)
  /\ current_date = today + 3 + 18 + 1
  /\ Len(log) = 60

====
